---- MODULE Spec2Model ----
(***************************************************************************)
(* Verification model of poc-api-spec-rag: the retrieval - rerank -        *)
(* validate pipeline (src/src/retrieval, src/src/ingestion,                *)
(* src/src/validation, src/src/core/models.py).                            *)
(*                                                                         *)
(* Each component has its own specification (SpecRerank, SpecSearch, ...)  *)
(* over the shared variables; the variables of the other components stay   *)
(* at their idle values.                                                   *)
(***************************************************************************)
EXTENDS Integers, Sequences, FiniteSets, TLC

VARIABLES
  \* ---- LLMReranker.rerank (src/src/retrieval/reranker.py)
  rr_pc,        \* "start" | "called" | "done"
  rr_results,   \* the argument `results`: a list of RetrievalResult object ids
  rr_rank,      \* the heap: object id -> its mutable field RetrievalResult.rank
  rr_top_n,     \* the argument `top_n`
  rr_llm,       \* outcome of ollama.chat plus reply extraction
  rr_return,    \* the list rerank returned
  rr_raised,    \* the exception rerank raised, "none" when it returned
  rr_calls,     \* number of ollama.chat calls made
  rr_rank0,     \* history: the heap as it was when rerank was called
  \* ---- VectorSearcher._parse_results (src/src/retrieval/vector_search.py)
  vs_pc,        \* "start" | "done"
  vs_distances, \* chroma_results["distances"][0]; neighbour i has id i
  vs_results,   \* the returned list of RetrievalResult
  \* ---- ChromaIndexer._chunk_to_metadata / VectorSearcher._reconstruct_chunk
  rt_pc,        \* "start" | "stored" | "done"
  rt_chunk,     \* the EndpointChunk handed to the indexer
  rt_metadata,  \* the metadata record held by the store
  rt_rebuilt,   \* the EndpointChunk rebuilt from the stored record
  \* ---- EndpointChunker.chunk_spec (src/src/ingestion/chunker.py)
  ch_pc,        \* "loop" | "done"
  ch_paths,     \* spec.paths.items(): a list of [path, item]
  ch_next,      \* index of the next path the loop visits
  ch_chunks,    \* the local list `chunks`
  ch_raised,    \* "none" | "ChunkingError"
  \* ---- QueryProcessor.process_query (src/src/retrieval/query_processor.py)
  qp_pc,        \* "start" | "done"
  qp_query,     \* the argument `query`
  qp_filters,   \* the argument `filters`: None or a dict
  qp_top_k,     \* the argument `top_k`: None or an int
  qp_request,   \* the QueryRequest returned
  qp_raised,    \* "none" | "RetrievalError" | "ValidationError"
  \* ---- SpecValidator.validate (src/src/validation/spec_validator.py)
  sv_pc,        \* "start" | "done"
  sv_curl,      \* the argument `curl_components`
  sv_chunk,     \* the argument `endpoint_chunk`
  sv_return,    \* the tuple returned
  sv_raised,    \* "none" | "TypeError"
  \* ---- ConfidenceScore.calculate (src/src/core/models.py)
  cs_pc,                 \* "start" | "done"
  cs_similarity,         \* the argument `similarity`, in 1/ScoreGrid
  cs_spec_completeness,  \* the argument `spec_completeness`, in 1/ScoreGrid
  cs_validation_passed,  \* the argument `validation_passed`
  cs_score,              \* the ConfidenceScore returned
  \* ---- ChromaIndexer.index_chunks (src/src/ingestion/indexer.py)
  ix_pc,          \* "start" | "done"
  ix_run,         \* which invocation of ingest this is
  ix_store,       \* the collection: chunk id -> stored entry
  ix_store0,      \* the collection when index_chunks was called
  ix_chunks,      \* the argument `chunks`
  ix_embeddings,  \* the argument `embeddings`
  ix_adds,        \* calls of collection.add made by this index_chunks
  ix_raised,      \* "none" | "VectorStoreError"
  \* ---- CurlValidator.validate (src/src/validation/curl_validator.py)
  cv_pc,          \* "start" | "done"
  cv_command,     \* the argument `curl_command`, as the regexes see it
  cv_checks,      \* the checks validate has run, in order
  cv_return,      \* the tuple returned
  \* ---- QueryProcessor._extract_filters (src/src/retrieval/query_processor.py)
  ef_pc,          \* "start" | "done"
  ef_query,       \* the argument `query`
  ef_filters,     \* the dict returned
  \* ---- VectorSearcher._build_where_clause (src/src/retrieval/vector_search.py)
  wc_pc,          \* "start" | "done"
  wc_filters,     \* the argument `filters`: None or a dict
  wc_where,       \* the where condition returned: None or a dict
  \* ---- OllamaEmbedder.embed_batch (src/src/ingestion/embedder.py)
  eb_pc,          \* "start" | "called" | "done"
  eb_texts,       \* the argument `texts`
  eb_provider,    \* what ollama.embed did: a response or an exception
  eb_calls,       \* calls of ollama.embed
  eb_return,      \* the list returned
  eb_raised,      \* "none" | "EmbeddingError" | "OllamaConnectionError"
  \* ---- the query command (src/src/main.py, query)
  pl_pc,             \* the stage about to run, "done" at the end
  pl_query,          \* the argument `query`, as typed
  pl_top_k,          \* the option --top-k
  pl_validate,       \* the option --validate
  pl_request,        \* query_req, the QueryRequest of process_query
  pl_embed_text,     \* the text handed to ollama.embed
  pl_embed_calls,    \* calls of ollama.embed
  pl_results,        \* retrieval_resp.results
  pl_rerank_calls,   \* calls of ollama.chat made by the reranker
  pl_reranked,       \* reranked_results
  pl_top,            \* top_result
  pl_messages,       \* the messages handed to ollama.chat by the generation client
  pl_chat_calls,     \* calls of ollama.chat made by the generation client
  pl_reply,          \* llm_output
  pl_response,       \* gen_resp, the GenerationResponse of the parser
  pl_validated,      \* whether the validators ran
  pl_syntax,         \* (syntax_valid, syntax_errors)
  pl_spec,           \* (spec_valid, spec_warnings, spec_completeness)
  pl_confidence,     \* the arguments the scorer was called with
  pl_provider,       \* the provider connection that failed, "none" for none
  pl_raised,         \* the exception that reached the except clause of the command
  pl_error,          \* what the except clause printed
  pl_outcome,        \* "running" | "returned" | "aborted"
  pl_ending,         \* which `return` ended the command
  pl_trace,          \* the stages started so far, each with how it ended
  \* ---- get_curl_components, then SpecValidator.validate (main.py:183-186)
  gc_pc,          \* "start" | "components" | "done"
  gc_command,     \* the command string, as the regexes see it
  gc_chunk,       \* the endpoint chunk
  gc_components,  \* the dict get_curl_components returned
  gc_return,      \* the triple validate returned
  gc_raised,      \* "none" | "TypeError"
  \* ---- ConfidenceScorer.calculate_score (src/src/validation/confidence_scorer.py)
  sc_pc,                 \* "start" | "done"
  sc_similarity,         \* the argument `similarity`, in 1/ScoreGrid
  sc_spec_completeness,  \* the argument `spec_completeness`, in 1/ScoreGrid
  sc_syntax_valid,       \* the argument `syntax_valid`
  sc_spec_valid,         \* the argument `spec_valid`
  sc_score,              \* the ConfidenceScore returned
  \* ---- OpenAPIParser.validate_spec and EndpointChunker.chunk_spec on one spec
  vp_pc,          \* "validate" | "chunk" | "done"
  vp_paths,       \* spec.paths
  vp_validate,    \* "none" | "True" | "SpecParsingError"
  vp_chunks,      \* the list chunk_spec returned
  vp_chunking,    \* "none" | "returned" | "ChunkingError"
  \* ---- OutputParser.parse_curl_response (src/src/generation/parser.py)
  pa_pc,          \* "start" | "done"
  pa_text,        \* the argument `llm_output`, line by line
  pa_response,    \* the GenerationResponse returned
  pa_raised,      \* "none" | "GenerationError"
  \* ---- the ingest command (src/src/main.py, ingest)
  ig_pc,           \* the stage about to run, "done" at the end
  ig_force,        \* the option --force
  ig_paths,        \* spec.paths of the file
  ig_store,        \* the persisted collection, None when there is none
  ig_store0,       \* the persisted collection before the run
  ig_chunks,       \* chunks
  ig_embeddings,   \* embeddings
  ig_delete,       \* how delete_collection ended: "none" when not called
  ig_raised,       \* the exception that reached the except clause of the command
  ig_error,        \* what the except clause printed
  ig_outcome,      \* "running" | "returned" | "aborted"
  ig_trace         \* the stages started so far, each with how it ended

rr_vars == <<rr_pc, rr_results, rr_rank, rr_top_n, rr_llm, rr_return, rr_raised,
             rr_calls, rr_rank0>>

vs_vars == <<vs_pc, vs_distances, vs_results>>

rt_vars == <<rt_pc, rt_chunk, rt_metadata, rt_rebuilt>>

ch_vars == <<ch_pc, ch_paths, ch_next, ch_chunks, ch_raised>>

qp_vars == <<qp_pc, qp_query, qp_filters, qp_top_k, qp_request, qp_raised>>

sv_vars == <<sv_pc, sv_curl, sv_chunk, sv_return, sv_raised>>

cs_vars == <<cs_pc, cs_similarity, cs_spec_completeness, cs_validation_passed, cs_score>>

ix_vars == <<ix_pc, ix_run, ix_store, ix_store0, ix_chunks, ix_embeddings, ix_adds, ix_raised>>

cv_vars == <<cv_pc, cv_command, cv_checks, cv_return>>

ef_vars == <<ef_pc, ef_query, ef_filters>>

wc_vars == <<wc_pc, wc_filters, wc_where>>

eb_vars == <<eb_pc, eb_texts, eb_provider, eb_calls, eb_return, eb_raised>>

pl_vars == <<pl_pc, pl_query, pl_top_k, pl_validate, pl_request, pl_embed_text,
             pl_embed_calls, pl_results, pl_rerank_calls, pl_reranked, pl_top, pl_messages,
             pl_chat_calls, pl_reply, pl_response, pl_validated, pl_syntax, pl_spec,
             pl_confidence, pl_provider, pl_raised, pl_error, pl_outcome, pl_ending,
             pl_trace>>

gc_vars == <<gc_pc, gc_command, gc_chunk, gc_components, gc_return, gc_raised>>

sc_vars == <<sc_pc, sc_similarity, sc_spec_completeness, sc_syntax_valid, sc_spec_valid, sc_score>>

vp_vars == <<vp_pc, vp_paths, vp_validate, vp_chunks, vp_chunking>>

pa_vars == <<pa_pc, pa_text, pa_response, pa_raised>>

ig_vars == <<ig_pc, ig_force, ig_paths, ig_store, ig_store0, ig_chunks, ig_embeddings, ig_delete, ig_raised, ig_error, ig_outcome, ig_trace>>

vars == <<rr_vars, vs_vars, rt_vars, ch_vars, qp_vars, sv_vars, cs_vars, ix_vars, cv_vars, ef_vars, wc_vars, eb_vars, pl_vars, gc_vars, sc_vars, vp_vars, pa_vars, ig_vars>>

(***************************************************************************)
(* Generic helpers                                                         *)
(***************************************************************************)
Min(a, b) == IF a <= b THEN a ELSE b

Range(s) == {s[i] : i \in DOMAIN s}

\* Python s[:n] for n >= 0
Take(s, n) == SubSeq(s, 1, Min(n, Len(s)))

\* Python None where a string is expected
NoneVal == "None"

\* Optional[T] for lists and objects: None is the empty set, a value v is {v}
None == {}
Some(v) == {v}
Get(o) == CHOOSE v \in o : TRUE

(***************************************************************************)
(* LLMReranker                                                             *)
(***************************************************************************)
MaxResults == 3

\* A reply text, tokenised: "label" is the text "가장 관련있는 번호:" followed by
\* optional blanks and a digit run of value n, "num" is any other digit run of
\* value n, "text" is text holding no digit.
ReplyTokens == [kind : {"label", "num"}, n : 0..(MaxResults + 1)]
                 \cup {[kind |-> "text", n |-> 0]}

Replies == {<<>>} \cup {<<a>> : a \in ReplyTokens}
              \cup {<<a, b>> : a \in ReplyTokens, b \in ReplyTokens}

NoOutcome == [kind |-> "none", text |-> <<>>]

LlmOutcomes == [kind : {"reply"}, text : Replies]
                 \cup {[kind |-> "ConnectionError", text |-> <<>>],
                       [kind |-> "Exception", text |-> <<>>]}

\* re.search(r'가장 관련있는 번호:\s*(\d+)', llm_output): first labelled number
LabelMatches(text) == SelectSeq(text, LAMBDA t : t.kind = "label")

\* re.findall(r'\d+', llm_output): every digit run, labelled or not
Numbers(text) == SelectSeq(text, LAMBDA t : t.kind \in {"label", "num"})

\* [top_choice] + [i for i in 1..num_results if i != top_choice]
RankingWithTop(top_choice, num_results) ==
  <<top_choice>> \o SelectSeq([i \in 1..num_results |-> i], LAMBDA i : i # top_choice)

\* `if 1 <= top_choice <= num_results`
InRangeNoUpperBound(top_choice, num_results) == 1 <= top_choice
InRange(top_choice, num_results) == 1 <= top_choice /\ top_choice <= num_results

_parse_ranking(text, num_results) ==
  LET m  == LabelMatches(text)
      ns == Numbers(text)
  IN IF m # <<>> /\ InRange(m[1].n, num_results)
       THEN RankingWithTop(m[1].n, num_results)
     ELSE IF ns # <<>> /\ InRange(ns[1].n, num_results)
       THEN RankingWithTop(ns[1].n, num_results)
     ELSE [i \in 1..num_results |-> i]

\* _apply_ranking: the reranked list ...
ApplyRankingList(results, ranking) ==
  LET kept == SelectSeq(ranking, LAMBDA p : p <= Len(results))
  IN [i \in 1..Len(kept) |-> results[kept[i]]]

\* ... and the heap after `result.rank = rank_position` for each position in turn
RECURSIVE ApplyRankingHeap(_, _, _, _)
ApplyRankingHeap(heap, results, ranking, pos) ==
  IF pos > Len(ranking) THEN heap
  ELSE IF ranking[pos] <= Len(results)
    THEN ApplyRankingHeap([heap EXCEPT ![results[ranking[pos]]] = pos],
                          results, ranking, pos + 1)
  ELSE ApplyRankingHeap(heap, results, ranking, pos + 1)

\* `if not results: return []` / `if len(results) == 1: return results`
ReturnsEarlyNoCall(results) == Len(results) = 0
ReturnsEarly(results) == Len(results) = 0 \/ Len(results) = 1

\* `return reranked[:top_n]`
TruncateAll(reranked, top_n) == reranked
Truncate(reranked, top_n) == Take(reranked, top_n)

\* `except Exception: return results[:top_n]`
FallbackWhole(results, top_n) == results
Fallback(results, top_n) == Take(results, top_n)

\* the object ids 1..MaxResults; a result list holds distinct objects
StrictlyIncreasing(f) == \A i, j \in DOMAIN f : i < j => f[i] < f[j]

RerankIdle ==
  /\ rr_pc = "idle"
  /\ rr_results = <<>>
  /\ rr_rank = <<>>
  /\ rr_top_n = 0
  /\ rr_llm = NoOutcome
  /\ rr_return = <<>>
  /\ rr_raised = "none"
  /\ rr_calls = 0
  /\ rr_rank0 = <<>>

RerankOnly == UNCHANGED <<vs_vars, rt_vars, ch_vars, qp_vars, sv_vars, cs_vars, ix_vars,
    cv_vars, ef_vars, wc_vars, eb_vars, pl_vars, gc_vars, sc_vars, vp_vars, pa_vars,
    ig_vars>>

RerankInit ==
  /\ rr_pc = "start"
  /\ \E k \in 0..MaxResults : rr_results = [i \in 1..k |-> i]
  \* ranks as VectorSearcher left them: increasing, 1-based
  /\ rr_rank \in {f \in [1..MaxResults -> 1..(MaxResults + 1)] : StrictlyIncreasing(f)}
  /\ rr_top_n \in 0..(MaxResults + 1)
  /\ rr_llm = NoOutcome
  /\ rr_return = <<>>
  /\ rr_raised = "none"
  /\ rr_calls = 0
  /\ rr_rank0 = rr_rank

\* lines 46-50
RerankReturnEarly ==
  /\ rr_pc = "start"
  /\ ReturnsEarly(rr_results)
  /\ rr_return' = rr_results
  /\ rr_pc' = "done"
  /\ UNCHANGED <<rr_results, rr_rank, rr_top_n, rr_llm, rr_raised, rr_calls, rr_rank0>>
  /\ RerankOnly

\* lines 52-76: build the prompt, call the model, read the reply
RerankCallModel ==
  /\ rr_pc = "start"
  /\ ~ReturnsEarly(rr_results)
  /\ rr_calls' = rr_calls + 1
  /\ rr_llm' \in LlmOutcomes
  /\ rr_pc' = "called"
  /\ UNCHANGED <<rr_results, rr_rank, rr_top_n, rr_return, rr_raised, rr_rank0>>
  /\ RerankOnly

\* lines 77-82
RerankApply ==
  /\ rr_pc = "called"
  /\ rr_llm.kind = "reply"
  /\ LET ranking == _parse_ranking(rr_llm.text, Len(rr_results))
     IN /\ rr_return' = Truncate(ApplyRankingList(rr_results, ranking), rr_top_n)
        /\ rr_rank' = ApplyRankingHeap(rr_rank, rr_results, ranking, 1)
  /\ rr_pc' = "done"
  /\ UNCHANGED <<rr_results, rr_top_n, rr_llm, rr_raised, rr_calls, rr_rank0>>
  /\ RerankOnly

\* lines 84-87
RerankConnectionError ==
  /\ rr_pc = "called"
  /\ rr_llm.kind = "ConnectionError"
  /\ rr_raised' = "OllamaConnectionError"
  /\ rr_pc' = "done"
  /\ UNCHANGED <<rr_results, rr_rank, rr_top_n, rr_llm, rr_return, rr_calls, rr_rank0>>
  /\ RerankOnly

\* lines 88-91
RerankFallback ==
  /\ rr_pc = "called"
  /\ rr_llm.kind = "Exception"
  /\ rr_return' = Fallback(rr_results, rr_top_n)
  /\ rr_pc' = "done"
  /\ UNCHANGED <<rr_results, rr_rank, rr_top_n, rr_llm, rr_raised, rr_calls, rr_rank0>>
  /\ RerankOnly

(***************************************************************************)
(* VectorSearcher._parse_results                                           *)
(***************************************************************************)
MaxNeighbours == 3

\* A store distance is d / DistanceScale, d in 0..2*DistanceScale (cosine
\* distance: 0 = identical, 2 = opposite); a similarity is s / (2*DistanceScale).
DistanceScale == 4

Distances == 0..(2 * DistanceScale)

\* settings.SIMILARITY_THRESHOLD = 0.5, in hundredths
SIMILARITY_THRESHOLD == 50

\* similarity_score = 1.0 - (distance / 2.0), in units of 1 / (2*DistanceScale)
Similarity(distance) == 2 * DistanceScale - distance

\* `if similarity_score < settings.SIMILARITY_THRESHOLD: continue`
BelowOrAtThreshold(similarity_score) ==
  100 * similarity_score <= SIMILARITY_THRESHOLD * 2 * DistanceScale
BelowThreshold(similarity_score) ==
  100 * similarity_score < SIMILARITY_THRESHOLD * 2 * DistanceScale

\* the loop of lines 137-157: `rank` is the enumerate() counter of the zipped
\* neighbour lists, start=1
RECURSIVE ParseResultsFrom(_, _)
ParseResultsFrom(distances, rank) ==
  IF rank > Len(distances) THEN <<>>
  ELSE IF BelowThreshold(Similarity(distances[rank]))
    THEN ParseResultsFrom(distances, rank + 1)
  ELSE <<[chunk_id |-> rank,
          similarity_score |-> Similarity(distances[rank]),
          rank |-> rank]>> \o ParseResultsFrom(distances, rank + 1)

_parse_results(distances) == ParseResultsFrom(distances, 1)

NeighbourLists == UNION {[1..n -> Distances] : n \in 0..MaxNeighbours}

SearchIdle ==
  /\ vs_pc = "idle"
  /\ vs_distances = <<>>
  /\ vs_results = <<>>

SearchOnly == UNCHANGED <<rr_vars, rt_vars, ch_vars, qp_vars, sv_vars, cs_vars, ix_vars,
    cv_vars, ef_vars, wc_vars, eb_vars, pl_vars, gc_vars, sc_vars, vp_vars, pa_vars,
    ig_vars>>

SearchInit ==
  /\ vs_pc = "start"
  /\ vs_distances \in NeighbourLists
  /\ vs_results = <<>>

\* VectorSearcher.search, lines 53-60: the store answers, the answer is parsed
SearchParse ==
  /\ vs_pc = "start"
  /\ vs_results' = _parse_results(vs_distances)
  /\ vs_pc' = "done"
  /\ UNCHANGED vs_distances
  /\ SearchOnly

(***************************************************************************)
(* EndpointChunker                                                         *)
(***************************************************************************)
\* the `methods` dict of chunk_spec, in its insertion order
VerbsReversed == <<"head", "options", "patch", "delete", "put", "post", "get">>
Verbs == <<"get", "post", "put", "delete", "patch", "options", "head">>

VerbSet == Range(Verbs)

\* method.upper()
Upper(method) ==
  CASE method = "get"     -> "GET"
    [] method = "post"    -> "POST"
    [] method = "put"     -> "PUT"
    [] method = "delete"  -> "DELETE"
    [] method = "patch"   -> "PATCH"
    [] method = "options" -> "OPTIONS"
    [] method = "head"    -> "HEAD"
    [] OTHER              -> method

\* chunk_id = f"{method}_{path}"
ChunkId(method, path) == method \o "_" \o path

\* `if operation.security: return len(operation.security) > 0` else False
_requires_auth(operation) ==
  IF operation.security # None /\ Get(operation.security) # <<>>
    THEN Len(Get(operation.security)) > 0
  ELSE FALSE

\* first key of requestBody.content, "application/json" without one
_get_content_type(operation) ==
  IF /\ operation.requestBody # None
     /\ Get(operation.requestBody).content # <<>>
    THEN Get(operation.requestBody).content[1]
  ELSE "application/json"

\* Python `x or []`
OrEmptyList(x) == IF x = None THEN <<>> ELSE Get(x)

_create_chunk(path, method, operation) ==
  [chunk_id     |-> ChunkId(method, path),
   method       |-> method,
   path         |-> path,
   summary      |-> operation.summary,
   description  |-> operation.description,
   parameters   |-> OrEmptyList(operation.parameters),
   request_body |-> operation.requestBody,
   responses    |-> operation.responses,
   metadata     |-> [endpoint      |-> path,
                     method        |-> method,
                     tags          |-> OrEmptyList(operation.tags),
                     operation_id  |-> operation.operationId,
                     requires_auth |-> _requires_auth(operation),
                     content_type  |-> _get_content_type(operation)]]

\* the chunks of one path item: one per non-null verb, in the order of `methods`
RECURSIVE ChunksOfPathItem(_, _, _, _)
ChunksOfPathItem(path, path_item, methods, i) ==
  IF i > Len(methods) THEN <<>>
  ELSE IF path_item[methods[i]] # None
    THEN <<_create_chunk(path, Upper(methods[i]), Get(path_item[methods[i]]))>>
           \o ChunksOfPathItem(path, path_item, methods, i + 1)
  ELSE ChunksOfPathItem(path, path_item, methods, i + 1)

\* Operation objects (core/models.py Operation)
OpPlain ==
  [summary |-> NoneVal, description |-> NoneVal, operationId |-> NoneVal,
   tags |-> None, parameters |-> None, requestBody |-> None,
   responses |-> {"200"}, security |-> None]

OpSecured ==
  [summary |-> "Approve", description |-> "Approves a payment",
   operationId |-> "approve", tags |-> Some(<<<<"a">>>>),
   parameters |-> Some(<<[name |-> "id", required |-> TRUE]>>),
   requestBody |-> Some([content |-> <<"multipart/form-data", "application/json">>]),
   responses |-> {"200"}, security |-> Some(<<"bearerAuth">>)]

Operations == {OpPlain, OpSecured}

\* PathItem: each verb holds an Operation or None
PathItems ==
  {item \in [VerbSet -> {None} \cup {Some(op) : op \in Operations}] :
     Cardinality({v \in VerbSet : item[v] # None}) <= 2}

PathNames == {"/pay", "/pay/{id}"}

\* spec.paths: a dict, so its keys are distinct; listed in insertion order
SpecPaths ==
  {<<>>}
    \cup {<<[path |-> p, item |-> it]>> : p \in PathNames, it \in PathItems}
    \cup {ps \in {<<[path |-> p, item |-> it], [path |-> q, item |-> jt]>> :
                     p \in PathNames, q \in PathNames,
                     it \in PathItems, jt \in PathItems} :
            ps[1].path # ps[2].path}

ChunkerIdle ==
  /\ ch_pc = "idle"
  /\ ch_paths = <<>>
  /\ ch_next = 0
  /\ ch_chunks = <<>>
  /\ ch_raised = "none"

ChunkerOnly == UNCHANGED <<rr_vars, vs_vars, rt_vars, qp_vars, sv_vars, cs_vars, ix_vars,
    cv_vars, ef_vars, wc_vars, eb_vars, pl_vars, gc_vars, sc_vars, vp_vars, pa_vars,
    ig_vars>>

ChunkerInit ==
  /\ ch_pc = "loop"
  /\ ch_paths \in SpecPaths
  /\ ch_next = 1
  /\ ch_chunks = <<>>
  /\ ch_raised = "none"

\* lines 26-45: one iteration of `for path, path_item in spec.paths.items()`
ChunkPath ==
  /\ ch_pc = "loop"
  /\ ch_next <= Len(ch_paths)
  /\ ch_chunks' = ch_chunks \o ChunksOfPathItem(ch_paths[ch_next].path,
                                                ch_paths[ch_next].item, Verbs, 1)
  /\ ch_next' = ch_next + 1
  /\ UNCHANGED <<ch_pc, ch_paths, ch_raised>>
  /\ ChunkerOnly

\* lines 47-53: no chunk at all raises ChunkingError (re-wrapped as one)
ChunkRaiseEmpty ==
  /\ ch_pc = "loop"
  /\ ch_next > Len(ch_paths)
  /\ ch_chunks = <<>>
  /\ ch_raised' = "ChunkingError"
  /\ ch_pc' = "done"
  /\ UNCHANGED <<ch_paths, ch_next, ch_chunks>>
  /\ ChunkerOnly

\* line 50
ChunkReturn ==
  /\ ch_pc = "loop"
  /\ ch_next > Len(ch_paths)
  /\ ch_chunks # <<>>
  /\ ch_pc' = "done"
  /\ UNCHANGED <<ch_paths, ch_next, ch_chunks, ch_raised>>
  /\ ChunkerOnly

(***************************************************************************)
(* ChromaIndexer._chunk_to_metadata and VectorSearcher._reconstruct_chunk  *)
(***************************************************************************)
\* Tags are sequences of characters: names that start and end with a letter
\* and may hold a comma or a blank in between.
TagLetters == {"a", "b"}

TagChars == TagLetters \cup {",", " "}

TagStrings == {<<c>> : c \in TagLetters}
                \cup {<<c, d, e>> : c \in TagLetters, d \in TagChars, e \in TagLetters}

TagLists == {<<>>} \cup {<<t>> : t \in TagStrings}
              \cup {<<t, u>> : t \in TagStrings, u \in TagStrings}

\* ",".join(tags)
RECURSIVE JoinComma(_)
JoinComma(tags) ==
  IF Len(tags) = 0 THEN <<>>
  ELSE IF Len(tags) = 1 THEN tags[1]
  ELSE tags[1] \o <<",">> \o JoinComma(Tail(tags))

\* tags_str.split(","): always at least one piece
RECURSIVE SplitComma(_)
SplitComma(str) ==
  IF \A i \in DOMAIN str : str[i] # ","
    THEN <<str>>
  ELSE LET i == CHOOSE k \in DOMAIN str :
                  str[k] = "," /\ \A j \in 1..(k - 1) : str[j] # ","
       IN <<SubSeq(str, 1, i - 1)>> \o SplitComma(SubSeq(str, i + 1, Len(str)))

\* tag.strip()
RECURSIVE Strip(_)
Strip(str) ==
  IF str = <<>> THEN str
  ELSE IF str[1] = " " THEN Strip(Tail(str))
  ELSE IF str[Len(str)] = " " THEN Strip(SubSeq(str, 1, Len(str) - 1))
  ELSE str

\* [tag.strip() for tag in tags_str.split(",") if tag.strip()]
ParseTags(tags_str) ==
  LET pieces == SelectSeq(SplitComma(tags_str), LAMBDA t : Strip(t) # <<>>)
  IN [i \in 1..Len(pieces) |-> Strip(pieces[i])]

\* Python `x or default` on an Optional[str]
OrElse(x, default) == IF x = NoneVal \/ x = "" THEN default ELSE x

_chunk_to_metadata(chunk) ==
  [endpoint      |-> chunk.metadata.endpoint,
   method        |-> chunk.metadata.method,
   tags          |-> JoinComma(chunk.metadata.tags),
   operation_id  |-> OrElse(chunk.metadata.operation_id, ""),
   requires_auth |-> chunk.metadata.requires_auth,
   content_type  |-> OrElse(chunk.metadata.content_type, "application/json"),
   summary       |-> OrElse(chunk.summary, "")]

_reconstruct_chunk(chunk_id, metadata) ==
  [chunk_id     |-> chunk_id,
   method       |-> metadata.method,
   path         |-> metadata.endpoint,
   summary      |-> OrElse(metadata.summary, NoneVal),
   description  |-> NoneVal,
   parameters   |-> <<>>,
   request_body |-> None,
   responses    |-> {},
   metadata     |-> [endpoint      |-> metadata.endpoint,
                     method        |-> metadata.method,
                     tags          |-> ParseTags(metadata.tags),
                     operation_id  |-> OrElse(metadata.operation_id, NoneVal),
                     requires_auth |-> metadata.requires_auth,
                     content_type  |-> metadata.content_type]]

\* the chunks indexed are those EndpointChunker._create_chunk builds
RoundTripOperations ==
  {[summary |-> sm, description |-> d, operationId |-> NoneVal, tags |-> t,
    parameters |-> ps, requestBody |-> rb, responses |-> {"200"}, security |-> sec] :
     sm \in {NoneVal, "Approve"},
     d \in {NoneVal, "Approves a payment"},
     t \in {None} \cup {Some(tl) : tl \in TagLists},
     ps \in {None, Some(<<[name |-> "id", required |-> TRUE]>>)},
     rb \in {None, Some([content |-> <<"multipart/form-data">>])},
     sec \in {None, Some(<<>>), Some(<<"bearerAuth">>)}}

RoundTripChunks == {_create_chunk("/pay/{id}", "POST", op) : op \in RoundTripOperations}

RoundTripIdle ==
  /\ rt_pc = "idle"
  /\ rt_chunk = None
  /\ rt_metadata = None
  /\ rt_rebuilt = None

RoundTripOnly == UNCHANGED <<rr_vars, vs_vars, ch_vars, qp_vars, sv_vars, cs_vars,
    ix_vars, cv_vars, ef_vars, wc_vars, eb_vars, pl_vars, gc_vars, sc_vars, vp_vars,
    pa_vars, ig_vars>>

RoundTripInit ==
  /\ rt_pc = "start"
  /\ rt_chunk \in RoundTripChunks
  /\ rt_metadata = None
  /\ rt_rebuilt = None

\* ChromaIndexer.index_chunks, lines 73-83: the record handed to the store
RoundTripIndex ==
  /\ rt_pc = "start"
  /\ rt_metadata' = _chunk_to_metadata(rt_chunk)
  /\ rt_pc' = "stored"
  /\ UNCHANGED <<rt_chunk, rt_rebuilt>>
  /\ RoundTripOnly

\* VectorSearcher._parse_results, line 149: the record read back
RoundTripReconstruct ==
  /\ rt_pc = "stored"
  /\ rt_rebuilt' = _reconstruct_chunk(rt_chunk.chunk_id, rt_metadata)
  /\ rt_pc' = "done"
  /\ UNCHANGED <<rt_chunk, rt_metadata>>
  /\ RoundTripOnly

(***************************************************************************)
(* QueryProcessor                                                          *)
(***************************************************************************)
MaxQueryPieces == 3

\* settings.TOP_K
TOP_K == 5

\* QueryRequest.top_k: Field(default=5, ge=1, le=20)
TOP_K_MIN == 1
TOP_K_MAX == 20

\* Query strings are sequences of characters.
\* method_keywords, in dict order (lines 101-107); a Hangul syllable is one
\* character, written by its romanised name
method_keywords ==
  <<
    [method |-> "post",
     keywords |-> <<<<"deung", "rok">>,
                    <<"saeng", "seong">>,
                    <<"chu", "ga">>,
                    <<"p", "o", "s", "t">>,
                    <<"c", "r", "e", "a", "t", "e">>>>],
    [method |-> "get",
     keywords |-> <<<<"jo", "hoe">>,
                    <<"hwak", "in">>,
                    <<"geom", "saek">>,
                    <<"g", "e", "t">>,
                    <<"r", "e", "a", "d">>,
                    <<"f", "e", "t", "c", "h">>>>],
    [method |-> "put",
     keywords |-> <<<<"su", "jeong">>,
                    <<"byeon", "gyeong">>,
                    <<"eop", "de", "yi", "teu">>,
                    <<"p", "u", "t">>,
                    <<"u", "p", "d", "a", "t", "e">>>>],
    [method |-> "delete",
     keywords |-> <<<<"sak", "je">>,
                    <<"je", "geo">>,
                    <<"chwi", "so">>,
                    <<"d", "e", "l", "e", "t", "e">>,
                    <<"r", "e", "m", "o", "v", "e">>,
                    <<"c", "a", "n", "c", "e", "l">>>>],
    [method |-> "patch",
     keywords |-> <<<<"il", "bu", "su", "jeong">>,
                    <<"p", "a", "t", "c", "h">>>>]
  >>

\* tag_keywords, in dict order (lines 115-120)
tag_keywords ==
  <<
    [tag |-> "payment",
     keywords |-> <<<<"gyeol", "je">>,
                    <<"p", "a", "y", "m", "e", "n", "t">>,
                    <<"p", "a", "y">>>>],
    [tag |-> "user",
     keywords |-> <<<<"sa", "yong", "ja">>,
                    <<"yu", "jeo">>,
                    <<"hoe", "won">>,
                    <<"u", "s", "e", "r">>,
                    <<"m", "e", "m", "b", "e", "r">>>>],
    [tag |-> "order",
     keywords |-> <<<<"ju", "mun">>,
                    <<"o", "r", "d", "e", "r">>>>],
    [tag |-> "product",
     keywords |-> <<<<"sang", "pum">>,
                    <<"je", "pum">>,
                    <<"p", "r", "o", "d", "u", "c", "t">>,
                    <<"i", "t", "e", "m">>>>]
  >>

\* pieces the raw queries are put together from
QueryPieces ==
  {<<" ">>,
   <<"\t">>,
   <<"gyeol", "je">>,
   <<"chwi", "so">>,
   <<"il", "bu", "su", "jeong">>,
   <<"g", "e", "t">>,
   <<"P", "O", "S", "T">>,
   <<"u", "s", "e", "r">>}

RECURSIVE ConcatAll(_)
ConcatAll(pieces) ==
  IF pieces = <<>> THEN <<>> ELSE Head(pieces) \o ConcatAll(Tail(pieces))

RawQueries ==
  {ConcatAll(ps) : ps \in UNION {[1..n -> QueryPieces] : n \in 0..MaxQueryPieces}}

IsSpace(c) == c \in {" ", "\t"}

\* query.strip()
RECURSIVE StripSpace(_)
StripSpace(str) ==
  IF str = <<>> THEN str
  ELSE IF IsSpace(str[1]) THEN StripSpace(Tail(str))
  ELSE IF IsSpace(str[Len(str)]) THEN StripSpace(SubSeq(str, 1, Len(str) - 1))
  ELSE str

\* " ".join(query.split()) on a stripped string: every run of blanks becomes " "
RECURSIVE CollapseSpace(_)
CollapseSpace(str) ==
  IF str = <<>> THEN str
  ELSE IF IsSpace(str[1])
    THEN IF Len(str) > 1 /\ IsSpace(str[2])
           THEN CollapseSpace(Tail(str))
         ELSE <<" ">> \o CollapseSpace(Tail(str))
  ELSE <<str[1]>> \o CollapseSpace(Tail(str))

_normalize_query(query) == CollapseSpace(StripSpace(query))

UpperLetters == <<"A", "B", "C", "D", "E", "F", "G", "H", "I", "J", "K", "L", "M",
                  "N", "O", "P", "Q", "R", "S", "T", "U", "V", "W", "X", "Y", "Z">>

LowerLetters == <<"a", "b", "c", "d", "e", "f", "g", "h", "i", "j", "k", "l", "m",
                  "n", "o", "p", "q", "r", "s", "t", "u", "v", "w", "x", "y", "z">>

LowerChar(c) ==
  IF \E i \in DOMAIN UpperLetters : UpperLetters[i] = c
    THEN LowerLetters[CHOOSE i \in DOMAIN UpperLetters : UpperLetters[i] = c]
  ELSE c

\* query.lower()
Lower(str) == [i \in DOMAIN str |-> LowerChar(str[i])]

\* `keyword in query_lower`
Contains(haystack, needle) ==
  \E i \in 0..(Len(haystack) - Len(needle)) :
    SubSeq(haystack, i + 1, i + Len(needle)) = needle

\* any(keyword in query_lower for keyword in keywords)
AnyKeyword(keywords, query_lower) ==
  \E i \in DOMAIN keywords : Contains(query_lower, keywords[i])

\* the index of the first table entry with a keyword in the query, 0 for none
LastMatch(table, query_lower) ==
  IF \E i \in DOMAIN table : AnyKeyword(table[i].keywords, query_lower)
    THEN CHOOSE i \in DOMAIN table :
           /\ AnyKeyword(table[i].keywords, query_lower)
           /\ \A j \in (i + 1)..Len(table) : ~AnyKeyword(table[j].keywords, query_lower)
  ELSE 0
FirstMatch(table, query_lower) ==
  IF \E i \in DOMAIN table : AnyKeyword(table[i].keywords, query_lower)
    THEN CHOOSE i \in DOMAIN table :
           /\ AnyKeyword(table[i].keywords, query_lower)
           /\ \A j \in 1..(i - 1) : ~AnyKeyword(table[j].keywords, query_lower)
  ELSE 0

\* Python dicts with string keys: functions from the keys present
EmptyDict == [k \in {} |-> ""]

DictSet(d, key, value) == [k \in DOMAIN d \cup {key} |-> IF k = key THEN value ELSE d[k]]

\* {**a, **b}: the keys of both, b's value where both hold the key
Merge(a, b) ==
  [k \in DOMAIN a \cup DOMAIN b |-> IF k \in DOMAIN b THEN b[k] ELSE a[k]]

_extract_filters(query) ==
  LET query_lower == Lower(query)
      m  == FirstMatch(method_keywords, query_lower)
      t  == FirstMatch(tag_keywords, query_lower)
      f1 == IF m = 0 THEN EmptyDict
            ELSE DictSet(EmptyDict, "method", Upper(method_keywords[m].method))
  IN IF t = 0 THEN f1 ELSE DictSet(f1, "tags", tag_keywords[t].tag)

\* merged_filters = {**(filters or {}), **auto_filters}
MergedFilters(filters, auto_filters) ==
  Merge(IF filters = None THEN EmptyDict ELSE Get(filters), auto_filters)

\* top_k or settings.TOP_K
EffectiveTopK(top_k) == IF top_k = None \/ Get(top_k) = 0 THEN TOP_K ELSE Get(top_k)

\* `if not query or not query.strip()`
EmptyQuery(query) == query = <<>> \/ StripSpace(query) = <<>>

\* the QueryRequest process_query builds (lines 39-52)
BuildQueryRequest(query, filters, top_k) ==
  LET normalized_query == _normalize_query(query)
      merged_filters   == MergedFilters(filters, _extract_filters(normalized_query))
  IN [query   |-> normalized_query,
      filters |-> IF merged_filters = EmptyDict THEN None ELSE Some(merged_filters),
      top_k   |-> EffectiveTopK(top_k)]

\* filters a caller may pass
CallerFilters ==
  {None, Some(EmptyDict)}
    \cup {Some(f) : f \in UNION {[ks -> {"PATCH", "admin"}] :
                                   ks \in (SUBSET {"method", "tags", "content_type"}) \ {{}}}}

CallerTopK == {None, Some(0), Some(3), Some(TOP_K_MAX + 1)}

QueryIdle ==
  /\ qp_pc = "idle"
  /\ qp_query = <<>>
  /\ qp_filters = None
  /\ qp_top_k = None
  /\ qp_request = None
  /\ qp_raised = "none"

QueryOnly == UNCHANGED <<rr_vars, vs_vars, rt_vars, ch_vars, sv_vars, cs_vars, ix_vars,
    cv_vars, ef_vars, wc_vars, eb_vars, pl_vars, gc_vars, sc_vars, vp_vars, pa_vars,
    ig_vars>>

QueryInit ==
  /\ qp_pc = "start"
  /\ qp_query \in RawQueries
  /\ qp_filters \in CallerFilters
  /\ qp_top_k \in CallerTopK
  /\ qp_request = None
  /\ qp_raised = "none"

\* lines 36-37
ProcessQueryRejectEmpty ==
  /\ qp_pc = "start"
  /\ EmptyQuery(qp_query)
  /\ qp_raised' = "RetrievalError"
  /\ qp_pc' = "done"
  /\ UNCHANGED <<qp_query, qp_filters, qp_top_k, qp_request>>
  /\ QueryOnly

\* lines 39-52, the QueryRequest passes its field validation
ProcessQueryReturn ==
  /\ qp_pc = "start"
  /\ ~EmptyQuery(qp_query)
  /\ LET request == BuildQueryRequest(qp_query, qp_filters, qp_top_k)
     IN /\ TOP_K_MIN <= request.top_k /\ request.top_k <= TOP_K_MAX
        /\ qp_request' = Some(request)
  /\ qp_pc' = "done"
  /\ UNCHANGED <<qp_query, qp_filters, qp_top_k, qp_raised>>
  /\ QueryOnly

\* lines 48-52, core/models.py:135: top_k outside [1, 20] fails the model validation
ProcessQueryInvalidTopK ==
  /\ qp_pc = "start"
  /\ ~EmptyQuery(qp_query)
  /\ LET request == BuildQueryRequest(qp_query, qp_filters, qp_top_k)
     IN ~(TOP_K_MIN <= request.top_k /\ request.top_k <= TOP_K_MAX)
  /\ qp_raised' = "ValidationError"
  /\ qp_pc' = "done"
  /\ UNCHANGED <<qp_query, qp_filters, qp_top_k, qp_request>>
  /\ QueryOnly

(***************************************************************************)
(* SpecValidator                                                           *)
(***************************************************************************)
UpperChar(c) ==
  IF \E i \in DOMAIN LowerLetters : LowerLetters[i] = c
    THEN UpperLetters[CHOOSE i \in DOMAIN LowerLetters : LowerLetters[i] = c]
  ELSE c

\* param_name.upper()
UpperStr(str) == [i \in DOMAIN str |-> UpperChar(str[i])]

\* str.startswith(prefix)
StartsWith(str, prefix) ==
  Len(str) >= Len(prefix) /\ SubSeq(str, 1, Len(prefix)) = prefix

\* the index of the "}" closing a match of \{[^}]+\} that opens at i, 0 for no match
ClosingBrace(str, i) ==
  IF \E k \in (i + 2)..Len(str) : str[k] = "}" /\ str[i + 1] # "}"
    THEN CHOOSE k \in (i + 2)..Len(str) :
           str[k] = "}" /\ \A j \in (i + 1)..(k - 1) : str[j] # "}"
  ELSE 0

\* re.sub(r"\{[^}]+\}", "", endpoint_path)
RECURSIVE RemovePathParams(_)
RemovePathParams(str) ==
  IF str = <<>> THEN str
  ELSE IF str[1] = "{" /\ ClosingBrace(str, 1) # 0
    THEN RemovePathParams(SubSeq(str, ClosingBrace(str, 1) + 1, Len(str)))
  ELSE <<str[1]>> \o RemovePathParams(Tail(str))

\* " ".join(headers)
RECURSIVE JoinSpace(_)
JoinSpace(strs) ==
  IF Len(strs) = 0 THEN <<>>
  ELSE IF Len(strs) = 1 THEN strs[1]
  ELSE strs[1] \o <<" ">> \o JoinSpace(Tail(strs))

\* f"{x}" of an Optional[str]
Format(x) == IF x = None THEN <<"N", "o", "n", "e">> ELSE Get(x)

_validate_method(curl_components, endpoint_chunk) ==
  Upper(curl_components.method) = Upper(endpoint_chunk.method)

\* `x in url` raises TypeError when the url component is None
PathCheckRaises(curl_components) == curl_components.url = None

_validate_path(curl_components, endpoint_chunk) ==
  LET url             == Get(curl_components.url)
      endpoint_path   == endpoint_chunk.endpoint
      normalized_path == RemovePathParams(endpoint_path)
  IN Contains(url, normalized_path) \/ Contains(url, endpoint_path)

HasHeader(headers, prefix) ==
  \E i \in DOMAIN headers : StartsWith(Lower(headers[i]), prefix)

_validate_auth(curl_components, endpoint_chunk) ==
  IF ~endpoint_chunk.requires_auth THEN TRUE
  ELSE HasHeader(curl_components.headers, <<"a", "u", "t", "h", "o", "r", "i", "z", "a", "t", "i", "o", "n">>)

\* `if not body`: None or the empty string
_validate_content_typeAlways(curl_components, endpoint_chunk) == TRUE
_validate_content_type(curl_components, endpoint_chunk) ==
  IF curl_components.body = None \/ Get(curl_components.body) = <<>> THEN TRUE
  ELSE HasHeader(curl_components.headers, <<"c", "o", "n", "t", "e", "n", "t", "-", "t", "y", "p", "e">>)

RequiredParams(endpoint_chunk) ==
  LET required == SelectSeq(endpoint_chunk.parameters, LAMBDA p : p.required)
  IN [i \in 1..Len(required) |-> required[i].name]

CombinedText(curl_components) ==
  Format(curl_components.url) \o <<" ">> \o JoinSpace(curl_components.headers)
    \o <<" ">> \o Format(curl_components.body)

ParamFound(param_name, combined_text) ==
  \/ Contains(combined_text, param_name)
  \/ Contains(combined_text, <<"<">> \o UpperStr(param_name) \o <<">">>)
  \/ Contains(combined_text, <<"$", "{">> \o UpperStr(param_name) \o <<"}">>)

\* found_count / len(required_params), as the pair [found, total]; 1.0 is [1, 1]
_validate_required_params(curl_components, endpoint_chunk) ==
  LET required_params == RequiredParams(endpoint_chunk)
      combined_text   == CombinedText(curl_components)
  IN IF Len(required_params) = 0 THEN [found |-> 1, total |-> 1]
     ELSE [found |-> Cardinality({i \in DOMAIN required_params :
                                    ParamFound(required_params[i], combined_text)}),
           total |-> Len(required_params)]

\* the weights of the five checks, in hundredths (lines 40, 49, 56, 63, 67)
METHOD_WEIGHT == 30
PATH_WEIGHT == 20
AUTH_WEIGHT == 20
CONTENT_TYPE_WEIGHT == 15
PARAMS_WEIGHT == 15

\* validate (lines 29-70): warnings holds the names of the checks that warned;
\* completeness_score is the exact fraction [num / den]
validate(curl_components, endpoint_chunk) ==
  LET method_match       == _validate_method(curl_components, endpoint_chunk)
      path_match         == _validate_path(curl_components, endpoint_chunk)
      auth_valid         == _validate_auth(curl_components, endpoint_chunk)
      content_type_valid == _validate_content_type(curl_components, endpoint_chunk)
      params             == _validate_required_params(curl_components, endpoint_chunk)
      warnings ==
        (IF method_match THEN <<>> ELSE <<"method">>)
          \o (IF path_match THEN <<>> ELSE <<"path">>)
          \o (IF auth_valid THEN <<>> ELSE <<"auth">>)
          \o (IF content_type_valid THEN <<>> ELSE <<"content_type">>)
      fixed ==
        (IF method_match THEN METHOD_WEIGHT ELSE 0)
          + (IF path_match THEN PATH_WEIGHT ELSE 0)
          + (IF auth_valid THEN AUTH_WEIGHT ELSE 0)
          + (IF content_type_valid THEN CONTENT_TYPE_WEIGHT ELSE 0)
  IN [is_valid |-> Len(warnings) = 0,
      warnings |-> warnings,
      completeness_score |-> [num |-> fixed * params.total + PARAMS_WEIGHT * params.found,
                              den |-> 100 * params.total]]

\* CurlValidator.get_curl_components: method is upper-cased or "GET", url and
\* body stay None when the command holds none, headers is a list
CurlUrls ==
  {None,
   Some(<<"h", "t", "t", "p", ":", "/", "/", "h", "/", "p", "a", "y", "/", "7">>),
   Some(<<"h", "t", "t", "p", ":", "/", "/", "h", "/", "p", "a", "y", "/", "<", "I", "D", ">">>),
   Some(<<"h", "t", "t", "p", ":", "/", "/", "h", "/", "p", "a", "y", "?", "i", "d", "=", "7">>),
   Some(<<"h", "t", "t", "p", ":", "/", "/", "h", "/", "x">>)}

CurlHeaders == {<<"A", "u", "t", "h", "o", "r", "i", "z", "a", "t", "i", "o", "n", ":", " ", "k">>, <<"c", "o", "n", "t", "e", "n", "t", "-", "t", "y", "p", "e", ":", " ", "j">>, <<"X", "-", "I", "d", ":", " ", "7">>}

CurlHeaderLists ==
  {<<>>} \cup {<<h>> : h \in CurlHeaders}
    \cup {hs \in [1..2 -> CurlHeaders] : hs[1] # hs[2]}

CurlBodies == {None, Some(<<"a", "m", "o", "u", "n", "t", "=", "5">>)}

CurlComponents ==
  [method : {"GET", "POST"}, url : CurlUrls, headers : CurlHeaderLists, body : CurlBodies]

ParamLists ==
  {<<>>,
   <<[name |-> <<"i", "d">>, required |-> TRUE]>>,
   <<[name |-> <<"a", "m", "o", "u", "n", "t">>, required |-> FALSE]>>,
   <<[name |-> <<"i", "d">>, required |-> TRUE], [name |-> <<"a", "m", "o", "u", "n", "t">>, required |-> TRUE]>>}

\* the fields of the EndpointChunk validate reads
EndpointChunks ==
  [method : {"GET", "POST"}, endpoint : {<<"/", "p", "a", "y">>, <<"/", "p", "a", "y", "/", "{", "i", "d", "}">>},
   requires_auth : BOOLEAN, parameters : ParamLists]

ValidatorIdle ==
  /\ sv_pc = "idle"
  /\ sv_curl = None
  /\ sv_chunk = None
  /\ sv_return = None
  /\ sv_raised = "none"

ValidatorOnly == UNCHANGED <<rr_vars, vs_vars, rt_vars, ch_vars, qp_vars, cs_vars,
    ix_vars, cv_vars, ef_vars, wc_vars, eb_vars, pl_vars, gc_vars, sc_vars, vp_vars,
    pa_vars, ig_vars>>

ValidatorInit ==
  /\ sv_pc = "start"
  /\ sv_curl \in {Some(c) : c \in CurlComponents}
  /\ sv_chunk \in {Some(c) : c \in EndpointChunks}
  /\ sv_return = None
  /\ sv_raised = "none"

\* lines 29-70
ValidateReturn ==
  /\ sv_pc = "start"
  /\ ~PathCheckRaises(Get(sv_curl))
  /\ sv_return' = Some(validate(Get(sv_curl), Get(sv_chunk)))
  /\ sv_pc' = "done"
  /\ UNCHANGED <<sv_curl, sv_chunk, sv_raised>>
  /\ ValidatorOnly

\* line 87 with url = None
ValidateRaise ==
  /\ sv_pc = "start"
  /\ PathCheckRaises(Get(sv_curl))
  /\ sv_raised' = "TypeError"
  /\ sv_pc' = "done"
  /\ UNCHANGED <<sv_curl, sv_chunk, sv_return>>
  /\ ValidatorOnly

(***************************************************************************)
(* ConfidenceScore                                                         *)
(***************************************************************************)
\* similarity and spec_completeness are multiples of 1/ScoreGrid in [0, 1]
ScoreGrid == 10

\* the weights and thresholds of calculate, in tenths (lines 225-232)
SIMILARITY_WEIGHT == 4
COMPLETENESS_WEIGHT == 3
VALIDATION_WEIGHT == 3
HIGH_THRESHOLD == 8
MEDIUM_THRESHOLD == 6

\* overall, in units of 1/(10 * ScoreGrid)
Overall(similarity, spec_completeness, validation_passed) ==
  similarity * SIMILARITY_WEIGHT
    + spec_completeness * COMPLETENESS_WEIGHT
    + (IF validation_passed THEN ScoreGrid ELSE 0) * VALIDATION_WEIGHT

\* `overall > threshold`
ExceedsOrEquals(overall, threshold) == overall >= threshold * ScoreGrid
Exceeds(overall, threshold) == overall > threshold * ScoreGrid

Level(overall) ==
  IF Exceeds(overall, HIGH_THRESHOLD) THEN "high"
  ELSE IF Exceeds(overall, MEDIUM_THRESHOLD) THEN "medium"
  ELSE "low"

calculate(similarity, spec_completeness, validation_passed) ==
  LET overall == Overall(similarity, spec_completeness, validation_passed)
  IN [similarity |-> similarity,
      spec_completeness |-> spec_completeness,
      validation_passed |-> validation_passed,
      overall |-> overall,
      level |-> Level(overall)]

ConfidenceIdle ==
  /\ cs_pc = "idle"
  /\ cs_similarity = 0
  /\ cs_spec_completeness = 0
  /\ cs_validation_passed = FALSE
  /\ cs_score = None

ConfidenceOnly == UNCHANGED <<rr_vars, vs_vars, rt_vars, ch_vars, qp_vars, sv_vars,
    ix_vars, cv_vars, ef_vars, wc_vars, eb_vars, pl_vars, gc_vars, sc_vars, vp_vars,
    pa_vars, ig_vars>>

ConfidenceInit ==
  /\ cs_pc = "start"
  /\ cs_similarity \in 0..ScoreGrid
  /\ cs_spec_completeness \in 0..ScoreGrid
  /\ cs_validation_passed \in BOOLEAN
  /\ cs_score = None

\* lines 224-243
Calculate ==
  /\ cs_pc = "start"
  /\ cs_score' = Some(calculate(cs_similarity, cs_spec_completeness, cs_validation_passed))
  /\ cs_pc' = "done"
  /\ UNCHANGED <<cs_similarity, cs_spec_completeness, cs_validation_passed>>
  /\ ConfidenceOnly

(***************************************************************************)
(* ChromaIndexer                                                           *)
(***************************************************************************)
MaxRuns == 2

IndexedIds == {"GET_/pay", "POST_/pay"}

\* a chunk as index_chunks reads it: its id and its embedding text
IndexedChunks == [chunk_id : IndexedIds, text : {"v1", "v2"}]

ChunkLists ==
  {<<>>} \cup {<<c>> : c \in IndexedChunks}
    \cup {cs \in [1..2 -> IndexedChunks] : cs[1].chunk_id # cs[2].chunk_id}

EmbeddingLists == UNION {[1..n -> {1, 2}] : n \in 0..2}

EmptyCollection == [id \in {} |-> 0]

\* ids = [chunk.chunk_id for chunk in chunks]
IdsOf(chunks) == {chunks[i].chunk_id : i \in DOMAIN chunks}

\* the entry collection.add receives for one id (lines 73-83)
EntryOf(chunks, embeddings, id) ==
  LET i == CHOOSE k \in DOMAIN chunks : chunks[k].chunk_id = id
  IN [embedding |-> embeddings[i], document |-> chunks[i].text]

\* collection.add: ids already in the collection are never replaced; the
\* stored entry stays and the new ids are inserted
CollectionAdd(store, chunks, embeddings) ==
  [id \in DOMAIN store \cup IdsOf(chunks) |->
     IF id \in DOMAIN store THEN store[id] ELSE EntryOf(chunks, embeddings, id)]

\* `if len(chunks) != len(embeddings)` (line 62)
CountMismatchFewerVectors(chunks, embeddings) == Len(chunks) > Len(embeddings)
CountMismatch(chunks, embeddings) == Len(chunks) # Len(embeddings)

IndexerIdle ==
  /\ ix_pc = "idle"
  /\ ix_run = 0
  /\ ix_store = EmptyCollection
  /\ ix_store0 = EmptyCollection
  /\ ix_chunks = <<>>
  /\ ix_embeddings = <<>>
  /\ ix_adds = 0
  /\ ix_raised = "none"

IndexerOnly == UNCHANGED <<rr_vars, vs_vars, rt_vars, ch_vars, qp_vars, sv_vars, cs_vars,
    cv_vars, ef_vars, wc_vars, eb_vars, pl_vars, gc_vars, sc_vars, vp_vars, pa_vars,
    ig_vars>>

\* the first ingest: ChromaIndexer(reset=force) on a store with no collection
IndexerInit ==
  /\ ix_pc = "start"
  /\ ix_run = 1
  /\ ix_store = EmptyCollection
  /\ ix_store0 = EmptyCollection
  /\ ix_chunks \in ChunkLists
  /\ ix_embeddings \in EmbeddingLists
  /\ ix_adds = 0
  /\ ix_raised = "none"

\* lines 62-66
IndexRaiseMismatch ==
  /\ ix_pc = "start"
  /\ CountMismatch(ix_chunks, ix_embeddings)
  /\ ix_raised' = "VectorStoreError"
  /\ ix_pc' = "done"
  /\ UNCHANGED <<ix_run, ix_store, ix_store0, ix_chunks, ix_embeddings, ix_adds>>
  /\ IndexerOnly

\* lines 68-69
IndexReturnEmpty ==
  /\ ix_pc = "start"
  /\ ~CountMismatch(ix_chunks, ix_embeddings)
  /\ Len(ix_chunks) = 0
  /\ ix_pc' = "done"
  /\ UNCHANGED <<ix_run, ix_store, ix_store0, ix_chunks, ix_embeddings, ix_adds, ix_raised>>
  /\ IndexerOnly

\* lines 71-83: collection.add returns
IndexAdd ==
  /\ ix_pc = "start"
  /\ ~CountMismatch(ix_chunks, ix_embeddings)
  /\ Len(ix_chunks) # 0
  /\ ix_store' = CollectionAdd(ix_store, ix_chunks, ix_embeddings)
  /\ ix_adds' = ix_adds + 1
  /\ ix_pc' = "done"
  /\ UNCHANGED <<ix_run, ix_store0, ix_chunks, ix_embeddings, ix_raised>>
  /\ IndexerOnly

\* lines 78-86: collection.add raises (a store that rejects an id it already
\* holds, or any other store failure); nothing is written
IndexAddFails ==
  /\ ix_pc = "start"
  /\ ~CountMismatch(ix_chunks, ix_embeddings)
  /\ Len(ix_chunks) # 0
  /\ ix_adds' = ix_adds + 1
  /\ ix_raised' = "VectorStoreError"
  /\ ix_pc' = "done"
  /\ UNCHANGED <<ix_run, ix_store, ix_store0, ix_chunks, ix_embeddings>>
  /\ IndexerOnly

\* the next ingest (main.py:65-66): ChromaIndexer(reset=force), then index_chunks
IngestAgain ==
  /\ ix_pc = "done"
  /\ ix_run < MaxRuns
  /\ ix_run' = ix_run + 1
  /\ \E force \in BOOLEAN :
       /\ ix_store' = IF force THEN EmptyCollection ELSE ix_store
       /\ ix_store0' = ix_store'
  /\ ix_chunks' \in ChunkLists
  /\ ix_embeddings' \in EmbeddingLists
  /\ ix_adds' = 0
  /\ ix_raised' = "none"
  /\ ix_pc' = "start"
  /\ IndexerOnly

(***************************************************************************)
(* CurlValidator                                                           *)
(***************************************************************************)
MaxCommandWords == 3

VALID_METHODS == {"GET", "POST", "PUT", "PATCH", "DELETE", "HEAD", "OPTIONS"}

\* A command is a sequence of blank-separated pieces; a piece is what one of
\* the regular expressions of the validator matches, or plain text:
\*   blank   extra white space
\*   curl    the word curl
\*   word    any other word
\*   method  -X <word> or --request <word>
\*   url     http(s)://..., <NAME> or ${NAME}
\*   header  -H "<text>" or --header "<text>"; `text` has a colon or not, and
\*           may hold a <NAME> placeholder that the URL patterns match too
\*   body    -d "<text>", --data "<text>" or --data-raw "<text>"
Piece(kind, method, colon, placeholder) ==
  [kind |-> kind, method |-> method, colon |-> colon, placeholder |-> placeholder]

CommandPieces ==
  {Piece("blank", "", FALSE, FALSE),
   Piece("curl", "", FALSE, FALSE),
   Piece("word", "", FALSE, FALSE),
   Piece("method", "POST", FALSE, FALSE),
   Piece("method", "get", FALSE, FALSE),
   Piece("method", "FROB", FALSE, FALSE),
   Piece("url", "", FALSE, FALSE),
   Piece("header", "", TRUE, FALSE),
   Piece("header", "", TRUE, TRUE),
   Piece("header", "", FALSE, FALSE),
   Piece("body", "", FALSE, FALSE)}

Commands == UNION {[1..n -> CommandPieces] : n \in 0..MaxCommandWords}

\* method.upper() of the words above
UpperWord(word) == IF word = "get" THEN "GET" ELSE word

\* command.strip(): the white space at both ends goes
RECURSIVE StripBlank(_)
StripBlank(command) ==
  IF command = <<>> THEN command
  ELSE IF command[1].kind = "blank" THEN StripBlank(Tail(command))
  ELSE IF command[Len(command)].kind = "blank"
    THEN StripBlank(SubSeq(command, 1, Len(command) - 1))
  ELSE command

\* stripped.startswith("curl "): the word curl with something after it
_starts_with_curlAlone(command) ==
  LET stripped == StripBlank(command)
  IN Len(stripped) >= 1 /\ stripped[1].kind = "curl"
_starts_with_curl(command) ==
  LET stripped == StripBlank(command)
  IN Len(stripped) >= 2 /\ stripped[1].kind = "curl"

PrefixError == [check |-> "prefix", at |-> 0]

\* one error per -X/--request whose word is no valid method
CurlMethodErrors(command) ==
  LET bad == SelectSeq([i \in DOMAIN command |-> [piece |-> command[i], at |-> i]],
                       LAMBDA m : /\ m.piece.kind = "method"
                                  /\ UpperWord(m.piece.method) \notin VALID_METHODS)
  IN [i \in DOMAIN bad |-> [check |-> "method", at |-> bad[i].at]]

\* one error when no URL pattern matches anywhere in the command
CurlUrlErrors(command) ==
  IF \E i \in DOMAIN command : command[i].kind = "url" \/ command[i].placeholder
    THEN <<>>
  ELSE <<[check |-> "url", at |-> 0]>>

\* one error per header without a colon
CurlHeaderErrors(command) ==
  LET bad == SelectSeq([i \in DOMAIN command |-> [piece |-> command[i], at |-> i]],
                       LAMBDA h : h.piece.kind = "header" /\ ~h.piece.colon)
  IN [i \in DOMAIN bad |-> [check |-> "header", at |-> bad[i].at]]

\* _validate_body: always (True, [])
CurlBodyErrors(command) == <<>>

CurlIdle ==
  /\ cv_pc = "idle"
  /\ cv_command = <<>>
  /\ cv_checks = <<>>
  /\ cv_return = None

CurlOnly == UNCHANGED <<rr_vars, vs_vars, rt_vars, ch_vars, qp_vars,
                        sv_vars, cs_vars, ix_vars, ef_vars, wc_vars, eb_vars, pl_vars,
    gc_vars, sc_vars, vp_vars, pa_vars, ig_vars>>

CurlInit ==
  /\ cv_pc = "start"
  /\ cv_command \in Commands
  /\ cv_checks = <<>>
  /\ cv_return = None

\* lines 31-34
CurlRejectPrefix ==
  /\ cv_pc = "start"
  /\ ~_starts_with_curl(cv_command)
  /\ cv_checks' = <<"prefix">>
  /\ cv_return' = Some([is_valid |-> FALSE, errors |-> <<PrefixError>>])
  /\ cv_pc' = "done"
  /\ UNCHANGED cv_command
  /\ CurlOnly

\* lines 36-53
CurlRunChecks ==
  /\ cv_pc = "start"
  /\ _starts_with_curl(cv_command)
  /\ LET errors == CurlMethodErrors(cv_command) \o CurlUrlErrors(cv_command)
                     \o CurlHeaderErrors(cv_command) \o CurlBodyErrors(cv_command)
     IN cv_return' = Some([is_valid |-> Len(errors) = 0, errors |-> errors])
  /\ cv_checks' = <<"prefix", "method", "url", "headers", "body">>
  /\ cv_pc' = "done"
  /\ UNCHANGED cv_command
  /\ CurlOnly

(***************************************************************************)
(* QueryProcessor._extract_filters on its own                              *)
(***************************************************************************)
\* "  gyeol-je   seung-in   cheo-ri  " (payment approval processing)
ApprovalQuery ==
  <<" ", " ", "gyeol", "je", " ", " ", " ", "seung", "in", " ", " ", " ",
    "cheo", "ri", " ", " ">>

ExtractQueries == RawQueries \cup {ApprovalQuery, _normalize_query(ApprovalQuery)}

ExtractIdle ==
  /\ ef_pc = "idle"
  /\ ef_query = <<>>
  /\ ef_filters = None

ExtractOnly == UNCHANGED <<rr_vars, vs_vars, rt_vars, ch_vars, qp_vars,
                         sv_vars, cs_vars, ix_vars, cv_vars, wc_vars, eb_vars, pl_vars,
    gc_vars, sc_vars, vp_vars, pa_vars, ig_vars>>

ExtractInit ==
  /\ ef_pc = "start"
  /\ ef_query \in ExtractQueries
  /\ ef_filters = None

\* lines 97-129
ExtractFilters ==
  /\ ef_pc = "start"
  /\ ef_filters' = Some(_extract_filters(ef_query))
  /\ ef_pc' = "done"
  /\ UNCHANGED ef_query
  /\ ExtractOnly

(***************************************************************************)
(* VectorSearcher._build_where_clause                                      *)
(***************************************************************************)
\* the fields _build_where_clause tests for, in the order of its `if`s
WhereFieldsWithTags == <<"method", "tags", "requires_auth", "content_type">>
WhereFields == <<"method", "requires_auth", "content_type">>

\* {field: {"$eq": value}}
EqCondition(field, value) == [field |-> field, op |-> "$eq", value |-> value]

\* {"$and": conditions}
AndCondition(conditions) == [op |-> "$and", conditions |-> conditions]

\* the list `conditions` (lines 87-102)
Conditions(filters) ==
  LET present == SelectSeq(WhereFields, LAMBDA f : f \in DOMAIN filters)
  IN [i \in DOMAIN present |-> EqCondition(present[i], filters[present[i]])]

\* `not filters`: None or the empty dict
_build_where_clause(filters) ==
  IF filters = None \/ Get(filters) = EmptyDict THEN None
  ELSE LET conditions == Conditions(Get(filters))
       IN IF Len(conditions) = 0 THEN None
          ELSE IF Len(conditions) = 1 THEN Some(conditions[1])
          ELSE Some(AndCondition(conditions))

\* the values a filter map may hold per key; "version" is a key the search
\* does not know
FilterValues(key) ==
  CASE key = "method" -> {"GET", "POST"}
    [] key = "tags" -> {"payment"}
    [] key = "requires_auth" -> {"True", "False"}
    [] key = "content_type" -> {"application/json"}
    [] OTHER -> {"v1"}

FilterKeys == {"method", "tags", "requires_auth", "content_type", "version"}

FilterMaps ==
  {None} \cup
  {Some(f) : f \in UNION {{g \in [ks -> UNION {FilterValues(k) : k \in ks}] :
                              \A k \in ks : g[k] \in FilterValues(k)} :
                          ks \in SUBSET FilterKeys}}

WhereIdle ==
  /\ wc_pc = "idle"
  /\ wc_filters = None
  /\ wc_where = None

WhereOnly == UNCHANGED <<rr_vars, vs_vars, rt_vars, ch_vars, qp_vars,
                       sv_vars, cs_vars, ix_vars, cv_vars, ef_vars, eb_vars, pl_vars,
    gc_vars, sc_vars, vp_vars, pa_vars, ig_vars>>

WhereInit ==
  /\ wc_pc = "start"
  /\ wc_filters \in FilterMaps
  /\ wc_where = None

\* lines 82-113
BuildWhereClause ==
  /\ wc_pc = "start"
  /\ wc_where' = _build_where_clause(wc_filters)
  /\ wc_pc' = "done"
  /\ UNCHANGED wc_filters
  /\ WhereOnly

(***************************************************************************)
(* OllamaEmbedder.embed_batch                                              *)
(***************************************************************************)
MaxTexts == 3

TextLists == UNION {[1..n -> {"t1", "t2"}] : n \in 0..MaxTexts}

\* a vector per text position; the provider may send more or fewer
VectorLists == UNION {[1..n -> {7}] : n \in 0..(MaxTexts + 1)}

NotCalled == [kind |-> "none", embeddings |-> None]

\* ollama.embed: a response whose "embeddings" is missing or a list, a
\* ConnectionError, or any other exception
ProviderOutcomes ==
  {[kind |-> "response", embeddings |-> None]}
    \cup {[kind |-> "response", embeddings |-> Some(v)] : v \in VectorLists}
    \cup {[kind |-> "ConnectionError", embeddings |-> None],
          [kind |-> "Exception", embeddings |-> None]}

\* `if not embeddings`: the key is missing (None) or the list is empty
NoEmbeddings(response) ==
  IF response.embeddings = None THEN TRUE ELSE Len(Get(response.embeddings)) = 0

\* `if len(embeddings) != len(texts)`
WrongLengthShorter(response, texts) == Len(Get(response.embeddings)) < Len(texts)
WrongLength(response, texts) == Len(Get(response.embeddings)) # Len(texts)

EmbedIdle ==
  /\ eb_pc = "idle"
  /\ eb_texts = <<>>
  /\ eb_provider = NotCalled
  /\ eb_calls = 0
  /\ eb_return = None
  /\ eb_raised = "none"

EmbedOnly == UNCHANGED <<rr_vars, vs_vars, rt_vars, ch_vars, qp_vars,
                       sv_vars, cs_vars, ix_vars, cv_vars, ef_vars, wc_vars, pl_vars,
    gc_vars, sc_vars, vp_vars, pa_vars, ig_vars>>

EmbedInit ==
  /\ eb_pc = "start"
  /\ eb_texts \in TextLists
  /\ eb_provider = NotCalled
  /\ eb_calls = 0
  /\ eb_return = None
  /\ eb_raised = "none"

\* lines 97-98
EmbedBatchEmpty ==
  /\ eb_pc = "start"
  /\ Len(eb_texts) = 0
  /\ eb_return' = Some(<<>>)
  /\ eb_pc' = "done"
  /\ UNCHANGED <<eb_texts, eb_provider, eb_calls, eb_raised>>
  /\ EmbedOnly

\* lines 100-104: one call with the whole list
EmbedBatchCall ==
  /\ eb_pc = "start"
  /\ Len(eb_texts) # 0
  /\ eb_provider' \in ProviderOutcomes
  /\ eb_calls' = eb_calls + 1
  /\ eb_pc' = "called"
  /\ UNCHANGED <<eb_texts, eb_return, eb_raised>>
  /\ EmbedOnly

\* lines 106-108, re-raised by 122-123
EmbedBatchNoEmbeddings ==
  /\ eb_pc = "called"
  /\ eb_provider.kind = "response"
  /\ NoEmbeddings(eb_provider)
  /\ eb_raised' = "EmbeddingError"
  /\ eb_pc' = "done"
  /\ UNCHANGED <<eb_texts, eb_provider, eb_calls, eb_return>>
  /\ EmbedOnly

\* lines 110-113, re-raised by 122-123
EmbedBatchWrongLength ==
  /\ eb_pc = "called"
  /\ eb_provider.kind = "response"
  /\ ~NoEmbeddings(eb_provider)
  /\ WrongLength(eb_provider, eb_texts)
  /\ eb_raised' = "EmbeddingError"
  /\ eb_pc' = "done"
  /\ UNCHANGED <<eb_texts, eb_provider, eb_calls, eb_return>>
  /\ EmbedOnly

\* line 115
EmbedBatchReturn ==
  /\ eb_pc = "called"
  /\ eb_provider.kind = "response"
  /\ ~NoEmbeddings(eb_provider)
  /\ ~WrongLength(eb_provider, eb_texts)
  /\ eb_return' = eb_provider.embeddings
  /\ eb_pc' = "done"
  /\ UNCHANGED <<eb_texts, eb_provider, eb_calls, eb_raised>>
  /\ EmbedOnly

\* lines 117-121
EmbedBatchConnectionError ==
  /\ eb_pc = "called"
  /\ eb_provider.kind = "ConnectionError"
  /\ eb_raised' = "OllamaConnectionError"
  /\ eb_pc' = "done"
  /\ UNCHANGED <<eb_texts, eb_provider, eb_calls, eb_return>>
  /\ EmbedOnly

\* lines 122-123
EmbedBatchOtherException ==
  /\ eb_pc = "called"
  /\ eb_provider.kind = "Exception"
  /\ eb_raised' = "EmbeddingError"
  /\ eb_pc' = "done"
  /\ UNCHANGED <<eb_texts, eb_provider, eb_calls, eb_return>>
  /\ EmbedOnly

(***************************************************************************)
(* CurlValidator.get_curl_components followed by SpecValidator.validate    *)
(***************************************************************************)
\* A piece of a command with the text the extraction keeps of it:
\*   method   -X <word>; `method` is the word
\*   url      a token one of the URL patterns matches: `pattern` is 1 for
\*            https?://\S+, 2 for <NAME>(/\S*)?, 3 for ${NAME}(/\S*)?
\*   header   -H "<text>"; a <NAME> inside the text is matched by pattern 2
\*   body     -d "<text>"
\*   curl, word   text none of the patterns matches
\* `text` is the header or body text, `match` what the URL pattern captures
TextPiece(kind, method, text, pattern, match) ==
  [kind |-> kind, method |-> method, text |-> text, pattern |-> pattern, match |-> match]

TextPieces ==
  {TextPiece("curl", "", <<>>, 0, <<>>),
   TextPiece("word", "", <<>>, 0, <<>>),
   TextPiece("method", "post", <<>>, 0, <<>>),
   TextPiece("url", "", <<>>, 1, <<"h", "t", "t", "p", ":", "/", "/", "h", "/", "p", "a", "y", "/", "7">>),
   TextPiece("url", "", <<>>, 2, <<"<", "B", "A", "S", "E", ">", "/", "p", "a", "y", "/", "7">>),
   TextPiece("header", "", <<"A", "u", "t", "h", "o", "r", "i", "z", "a", "t", "i", "o", "n", ":", " ", "k">>, 0, <<>>),
   TextPiece("header", "", <<"X", "-", "I", "d", ":", " ", "<", "I", "D", ">">>, 2, <<"<", "I", "D", ">">>),
   TextPiece("body", "", <<"a", "m", "o", "u", "n", "t", "=", "5">>, 0, <<>>)}

TextCommands == UNION {[1..n -> TextPieces] : n \in 0..MaxCommandWords}

\* the first piece of a command that satisfies `want`, 0 for none
FirstPiece(command, want(_)) ==
  IF \E i \in DOMAIN command : want(command[i])
    THEN CHOOSE i \in DOMAIN command :
           want(command[i]) /\ \A j \in 1..(i - 1) : ~want(command[j])
  ELSE 0

\* lines 157-166: the patterns are tried in turn, each over the whole command
ExtractUrl(command) ==
  LET p1 == FirstPiece(command, LAMBDA p : p.pattern = 1)
      p2 == FirstPiece(command, LAMBDA p : p.pattern = 2)
      p3 == FirstPiece(command, LAMBDA p : p.pattern = 3)
  IN IF p1 # 0 THEN Some(command[p1].match)
     ELSE IF p2 # 0 THEN Some(command[p2].match)
     ELSE IF p3 # 0 THEN Some(command[p3].match)
     ELSE None

\* lines 141-179
get_curl_components(command) ==
  LET m == FirstPiece(command, LAMBDA p : p.kind = "method")
      b == FirstPiece(command, LAMBDA p : p.kind = "body")
      hs == SelectSeq(command, LAMBDA p : p.kind = "header")
  IN [method  |-> IF m # 0 THEN Upper(command[m].method) ELSE "GET",
      url     |-> ExtractUrl(command),
      headers |-> [i \in DOMAIN hs |-> hs[i].text],
      body    |-> IF b # 0 THEN Some(command[b].text) ELSE None]

\* top_result.chunk
ComponentChunks ==
  {c \in EndpointChunks :
     /\ c.method = "POST"
     /\ c.endpoint = <<"/", "p", "a", "y", "/", "{", "i", "d", "}">>
     /\ Len(c.parameters) <= 1}

ComponentsIdle ==
  /\ gc_pc = "idle"
  /\ gc_command = <<>>
  /\ gc_chunk = None
  /\ gc_components = None
  /\ gc_return = None
  /\ gc_raised = "none"

ComponentsOnly == UNCHANGED <<rr_vars, vs_vars, rt_vars, ch_vars, qp_vars,
                              sv_vars, cs_vars, ix_vars, cv_vars, ef_vars,
                              wc_vars, eb_vars, pl_vars, sc_vars, vp_vars, pa_vars,
    ig_vars>>

ComponentsInit ==
  /\ gc_pc = "start"
  /\ gc_command \in TextCommands
  /\ gc_chunk \in {Some(c) : c \in ComponentChunks}
  /\ gc_components = None
  /\ gc_return = None
  /\ gc_raised = "none"

\* main.py:183
GetCurlComponents ==
  /\ gc_pc = "start"
  /\ gc_components' = Some(get_curl_components(gc_command))
  /\ gc_pc' = "components"
  /\ UNCHANGED <<gc_command, gc_chunk, gc_return, gc_raised>>
  /\ ComponentsOnly

\* main.py:184-186, spec_validator.py:29-70
ComponentsValidateReturn ==
  /\ gc_pc = "components"
  /\ ~PathCheckRaises(Get(gc_components))
  /\ gc_return' = Some(validate(Get(gc_components), Get(gc_chunk)))
  /\ gc_pc' = "done"
  /\ UNCHANGED <<gc_command, gc_chunk, gc_components, gc_raised>>
  /\ ComponentsOnly

\* spec_validator.py:80-87: components["url"] is None, .get("url", "") returns
\* it, and `normalized_path in url` raises TypeError
ComponentsValidateRaise ==
  /\ gc_pc = "components"
  /\ PathCheckRaises(Get(gc_components))
  /\ gc_raised' = "TypeError"
  /\ gc_pc' = "done"
  /\ UNCHANGED <<gc_command, gc_chunk, gc_components, gc_return>>
  /\ ComponentsOnly

(***************************************************************************)
(* ConfidenceScorer.calculate_score                                        *)
(***************************************************************************)
\* validation_passed = syntax_valid and spec_valid (line 35)
ValidationPassedEither(syntax_valid, spec_valid) == syntax_valid \/ spec_valid
ValidationPassed(syntax_valid, spec_valid) == syntax_valid /\ spec_valid

\* lines 35-42
calculate_score(similarity, spec_completeness, syntax_valid, spec_valid) ==
  calculate(similarity, spec_completeness, ValidationPassed(syntax_valid, spec_valid))

ScorerIdle ==
  /\ sc_pc = "idle"
  /\ sc_similarity = 0
  /\ sc_spec_completeness = 0
  /\ sc_syntax_valid = FALSE
  /\ sc_spec_valid = FALSE
  /\ sc_score = None

ScorerOnly == UNCHANGED <<rr_vars, vs_vars, rt_vars, ch_vars, qp_vars,
                         sv_vars, cs_vars, ix_vars, cv_vars, ef_vars,
                         wc_vars, eb_vars, pl_vars, gc_vars, vp_vars, pa_vars, ig_vars>>

ScorerInit ==
  /\ sc_pc = "start"
  /\ sc_similarity \in 0..ScoreGrid
  /\ sc_spec_completeness \in 0..ScoreGrid
  /\ sc_syntax_valid \in BOOLEAN
  /\ sc_spec_valid \in BOOLEAN
  /\ sc_score = None

\* lines 35-42
CalculateScore ==
  /\ sc_pc = "start"
  /\ sc_score' = Some(calculate_score(sc_similarity, sc_spec_completeness,
                                      sc_syntax_valid, sc_spec_valid))
  /\ sc_pc' = "done"
  /\ UNCHANGED <<sc_similarity, sc_spec_completeness, sc_syntax_valid, sc_spec_valid>>
  /\ ScorerOnly

(***************************************************************************)
(* OpenAPIParser.validate_spec against EndpointChunker.chunk_spec          *)
(***************************************************************************)
\* the operations validate_spec looks at (parser.py:118-122)
ValidatedVerbsWithoutHead == <<"get", "post", "put", "delete", "patch", "options">>
ValidatedVerbs == <<"get", "post", "put", "delete", "patch", "options", "head">>

\* `operations`: the non-null operations of a path item
OperationsOf(path_item) ==
  SelectSeq(ValidatedVerbs, LAMBDA v : path_item[v] # None)

\* valid_operations after the loop (parser.py:115-126)
RECURSIVE ValidOperations(_)
ValidOperations(paths) ==
  IF paths = <<>> THEN 0
  ELSE Len(OperationsOf(paths[1].item)) + ValidOperations(Tail(paths))

\* `chunks` after the loop of chunk_spec (chunker.py:26-45)
RECURSIVE ChunksOfSpec(_)
ChunksOfSpec(paths) ==
  IF paths = <<>> THEN <<>>
  ELSE ChunksOfPathItem(paths[1].path, paths[1].item, Verbs, 1)
         \o ChunksOfSpec(Tail(paths))

EmptinessIdle ==
  /\ vp_pc = "idle"
  /\ vp_paths = <<>>
  /\ vp_validate = "none"
  /\ vp_chunks = <<>>
  /\ vp_chunking = "none"

EmptinessOnly == UNCHANGED <<rr_vars, vs_vars, rt_vars, ch_vars, qp_vars,
                            sv_vars, cs_vars, ix_vars, cv_vars, ef_vars,
                            wc_vars, eb_vars, pl_vars, gc_vars, sc_vars, pa_vars, ig_vars>>

EmptinessInit ==
  /\ vp_pc = "validate"
  /\ vp_paths \in SpecPaths
  /\ vp_validate = "none"
  /\ vp_chunks = <<>>
  /\ vp_chunking = "none"

\* parser.py:111-112
ValidateSpecNoPaths ==
  /\ vp_pc = "validate"
  /\ Len(vp_paths) = 0
  /\ vp_validate' = "SpecParsingError"
  /\ vp_pc' = "chunk"
  /\ UNCHANGED <<vp_paths, vp_chunks, vp_chunking>>
  /\ EmptinessOnly

\* parser.py:128-129
ValidateSpecNoOperations ==
  /\ vp_pc = "validate"
  /\ Len(vp_paths) # 0
  /\ ValidOperations(vp_paths) = 0
  /\ vp_validate' = "SpecParsingError"
  /\ vp_pc' = "chunk"
  /\ UNCHANGED <<vp_paths, vp_chunks, vp_chunking>>
  /\ EmptinessOnly

\* parser.py:131
ValidateSpecReturn ==
  /\ vp_pc = "validate"
  /\ Len(vp_paths) # 0
  /\ ValidOperations(vp_paths) # 0
  /\ vp_validate' = "True"
  /\ vp_pc' = "chunk"
  /\ UNCHANGED <<vp_paths, vp_chunks, vp_chunking>>
  /\ EmptinessOnly

\* chunker.py:47-48, re-raised by 52-53
ChunkSpecRaiseEmpty ==
  /\ vp_pc = "chunk"
  /\ ChunksOfSpec(vp_paths) = <<>>
  /\ vp_chunking' = "ChunkingError"
  /\ vp_pc' = "done"
  /\ UNCHANGED <<vp_paths, vp_validate, vp_chunks>>
  /\ EmptinessOnly

\* chunker.py:50
ChunkSpecReturn ==
  /\ vp_pc = "chunk"
  /\ ChunksOfSpec(vp_paths) # <<>>
  /\ vp_chunks' = ChunksOfSpec(vp_paths)
  /\ vp_chunking' = "returned"
  /\ vp_pc' = "done"
  /\ UNCHANGED <<vp_paths, vp_validate>>
  /\ EmptinessOnly

(***************************************************************************)
(* OutputParser                                                            *)
(***************************************************************************)
MaxReplyLines == 3

\* A reply of the generative model is a sequence of lines. A line is
\*   blank     empty or white space
\*   curl      a line that starts with "curl " and arguments
\*   option    a line that starts with "-"
\*   fence     ``` or ```bash
\*   refusal   a line holding one of the refusal markers
\*   tag       a line holding a confidence tag of the given level
\*   text      any other line
\* `backslash` says whether the line ends with a backslash, `pieces` is the
\* line as the validators see it
ReplyLine(kind, backslash, level, pieces) ==
  [kind |-> kind, backslash |-> backslash, level |-> level, pieces |-> pieces]

WordPiece == TextPiece("word", "", <<>>, 0, <<>>)

CurlLine ==
  ReplyLine("curl", FALSE, "",
            <<TextPiece("curl", "", <<>>, 0, <<>>), TextPiece("method", "post", <<>>, 0, <<>>),
              TextPiece("url", "", <<>>, 1, <<"h", "t", "t", "p", ":", "/", "/", "h", "/", "p", "a", "y", "/", "7">>)>>)

CurlLineWithoutUrl ==
  ReplyLine("curl", TRUE, "",
            <<TextPiece("curl", "", <<>>, 0, <<>>), TextPiece("method", "post", <<>>, 0, <<>>)>>)

OptionLine(backslash) ==
  ReplyLine("option", backslash, "", <<TextPiece("header", "", <<"A", "u", "t", "h", "o", "r", "i", "z", "a", "t", "i", "o", "n", ":", " ", "k">>, 0, <<>>)>>)

BlankLine == ReplyLine("blank", FALSE, "", <<>>)
TextLine == ReplyLine("text", FALSE, "", <<WordPiece>>)
FenceLine == ReplyLine("fence", FALSE, "", <<WordPiece>>)
RefusalLine == ReplyLine("refusal", FALSE, "", <<WordPiece>>)
TagLine(level) == ReplyLine("tag", FALSE, level, <<WordPiece>>)

ReplyLines ==
  {BlankLine, TextLine, FenceLine, RefusalLine, CurlLine, CurlLineWithoutUrl,
   OptionLine(FALSE), OptionLine(TRUE), TagLine("high"), TagLine("low")}

ReplyTexts == UNION {[1..n -> ReplyLines] : n \in 0..MaxReplyLines}

\* any(re.search(pattern, text, re.IGNORECASE) for pattern in patterns)
_is_insufficient_infoUnlessCurl(text) ==
  /\ \E i \in DOMAIN text : text[i].kind = "refusal"
  /\ ~\E i \in DOMAIN text : text[i].kind = "curl"
_is_insufficient_info(text) == \E i \in DOMAIN text : text[i].kind = "refusal"

\* str.strip() of joined lines: the blank lines at both ends go
RECURSIVE StripLines(_)
StripLines(lines) ==
  IF lines = <<>> THEN lines
  ELSE IF lines[1].kind = "blank" THEN StripLines(Tail(lines))
  ELSE IF lines[Len(lines)].kind = "blank"
    THEN StripLines(SubSeq(lines, 1, Len(lines) - 1))
  ELSE lines

\* where ```(?:bash|sh)?\s*\n(curl\s+.+?)\n``` can match: an opening fence
\* at i, white space only up to a curl line at k, a closing fence at j
FencedMatches(text) ==
  {m \in (DOMAIN text) \X (DOMAIN text) \X (DOMAIN text) :
     /\ m[1] < m[2] /\ m[2] < m[3]
     /\ text[m[1]].kind = "fence"
     /\ \A b \in (m[1] + 1)..(m[2] - 1) : text[b].kind = "blank"
     /\ text[m[2]].kind = "curl"
     /\ text[m[3]].kind = "fence"
     /\ \A c \in (m[2] + 1)..(m[3] - 1) : text[c].kind # "fence"}

\* re.search: the leftmost match
FirstFencedMatch(text) ==
  CHOOSE m \in FencedMatches(text) : \A o \in FencedMatches(text) : m[1] <= o[1]

\* lines 136-151: the loop over the lines
RECURSIVE CurlLinesFrom(_, _, _, _)
CurlLinesFrom(lines, i, in_curl, curl_lines) ==
  IF i > Len(lines) THEN curl_lines
  ELSE IF lines[i].kind = "curl"
    THEN CurlLinesFrom(lines, i + 1, TRUE, Append(curl_lines, lines[i]))
  ELSE IF in_curl
    THEN IF lines[i].backslash
           THEN CurlLinesFrom(lines, i + 1, in_curl, Append(curl_lines, lines[i]))
         ELSE IF lines[i].kind \notin {"blank", "option"}
           THEN Append(curl_lines, lines[i])
         ELSE IF lines[i].kind = "blank" THEN curl_lines
         ELSE CurlLinesFrom(lines, i + 1, in_curl, curl_lines)
  ELSE CurlLinesFrom(lines, i + 1, in_curl, curl_lines)

\* _extract_curl_command: the lines of the command, None when it raises
\* GenerationError (line 156)
_extract_curl_command(text) ==
  IF FencedMatches(text) # {}
    THEN LET m == FirstFencedMatch(text)
         IN Some(StripLines(SubSeq(text, m[2], m[3] - 1)))
  ELSE LET curl_lines == CurlLinesFrom(text, 1, FALSE, <<>>)
       IN IF curl_lines # <<>> THEN Some(StripLines(curl_lines)) ELSE None

\* _extract_confidence: the tags are tested in the order high, medium, low
DefaultConfidenceLow == "low"
DefaultConfidence == "medium"

_extract_confidence(text) ==
  IF \E i \in DOMAIN text : text[i].kind = "tag" /\ text[i].level = "high" THEN "high"
  ELSE IF \E i \in DOMAIN text : text[i].kind = "tag" /\ text[i].level = "medium" THEN "medium"
  ELSE IF \E i \in DOMAIN text : text[i].kind = "tag" /\ text[i].level = "low" THEN "low"
  ELSE DefaultConfidence

\* the GenerationResponse of a refusal (lines 32-44); `command` is the list of
\* the lines of the command, empty for ""
RefusalResponse ==
  [command |-> <<>>, confidence |-> "low", warnings |-> <<"missing information">>]

\* the GenerationResponse of a reply with a command (lines 46-76)
CommandResponse(text) ==
  [command |-> Get(_extract_curl_command(text)),
   confidence |-> _extract_confidence(text),
   warnings |-> <<>>]

\* parse_curl_response raises GenerationError (lines 78-79)
ParseRaises(text) ==
  ~_is_insufficient_info(text) /\ _extract_curl_command(text) = None

\* parse_curl_response when it returns
parse_curl_response(text) ==
  IF _is_insufficient_info(text) THEN RefusalResponse ELSE CommandResponse(text)

ParserIdle ==
  /\ pa_pc = "idle"
  /\ pa_text = <<>>
  /\ pa_response = None
  /\ pa_raised = "none"

ParserOnly == UNCHANGED <<rr_vars, vs_vars, rt_vars, ch_vars, qp_vars,
                         sv_vars, cs_vars, ix_vars, cv_vars, ef_vars,
                         wc_vars, eb_vars, pl_vars, gc_vars, sc_vars,
                         vp_vars, ig_vars>>

ParserInit ==
  /\ pa_pc = "start"
  /\ pa_text \in ReplyTexts
  /\ pa_response = None
  /\ pa_raised = "none"

\* lines 29-76
ParseReturn ==
  /\ pa_pc = "start"
  /\ ~ParseRaises(pa_text)
  /\ pa_response' = Some(parse_curl_response(pa_text))
  /\ pa_pc' = "done"
  /\ UNCHANGED <<pa_text, pa_raised>>
  /\ ParserOnly

\* lines 156, 78-79
ParseRaise ==
  /\ pa_pc = "start"
  /\ ParseRaises(pa_text)
  /\ pa_raised' = "GenerationError"
  /\ pa_pc' = "done"
  /\ UNCHANGED <<pa_text, pa_response>>
  /\ ParserOnly

(***************************************************************************)
(* The query command                                                       *)
(***************************************************************************)
\* queries as typed on the command line
TypedQueries == {ConcatAll(ps) : ps \in UNION {[1..n -> QueryPieces] : n \in {0, 1, 2}}}

\* the text PromptBuilder._build_system_prompt returns, and the text
\* _build_user_prompt builds from the query and the chunks
SystemInstruction == "system instruction"
UserPrompt == "endpoints and query"

\* OllamaLLMClient.generate(prompt, system_prompt): the messages it sends
GenerateMessages(prompt, system_prompt) ==
  (IF system_prompt # "" THEN <<[role |-> "system", content |-> system_prompt]>> ELSE <<>>)
    \o <<[role |-> "user", content |-> prompt]>>

\* llm.generate(gen_req.system_prompt, user_prompt) (main.py:153)
QueryMessages == GenerateMessages(SystemInstruction, UserPrompt)

\* processor.embed_query(query) (main.py:121): the text sent to the provider
QueryEmbedText(query, request) == query

\* the chunk of a search result
ResultChunk(id) ==
  [method |-> "POST", endpoint |-> <<"/", "p", "a", "y", "/", "{", "i", "d", "}">>, requires_auth |-> id = "a",
   parameters |-> IF id = "a" THEN <<>> ELSE <<[name |-> <<"i", "d">>, required |-> TRUE]>>]

SearchResult(id, similarity_score, rank) ==
  [id |-> id, similarity_score |-> similarity_score, rank |-> rank,
   chunk |-> ResultChunk(id)]

\* what searcher.search may return: at most two results, the more similar
\* first, similarity in 1/ScoreGrid
SearchResultLists ==
  {<<>>}
    \cup {<<SearchResult("a", x, 1)>> : x \in {6, 9}}
    \cup {<<SearchResult("a", x, 1), SearchResult("b", y, 2)>> : x \in {9}, y \in {6, 9}}

\* what ollama.chat may do for the reranker
RerankOutcomes ==
  {[kind |-> "reply", text |-> <<>>],
   [kind |-> "reply", text |-> <<[kind |-> "label", n |-> 2]>>],
   [kind |-> "reply", text |-> <<[kind |-> "num", n |-> 1]>>],
   [kind |-> "reply", text |-> <<[kind |-> "label", n |-> 3]>>],
   [kind |-> "Exception", text |-> <<>>]}

\* `result.rank = rank_position` for each result of the new order
\* (reranker.py:203-207)
Renumbered(reranked) == [i \in DOMAIN reranked |-> [reranked[i] EXCEPT !.rank = i]]

\* LLMReranker.rerank when it returns (reranker.py:46-91)
rerank(results, top_n, llm) ==
  IF ReturnsEarly(results) THEN results
  ELSE IF llm.kind = "reply"
    THEN Truncate(Renumbered(ApplyRankingList(results, _parse_ranking(llm.text, Len(results)))),
                  top_n)
  ELSE Fallback(results, top_n)

\* reranker.rerank(query, retrieval_resp.results, top_n=1) (main.py:133)
QueryRerankTwo(results, llm) == rerank(results, 2, llm)
QueryRerank(results, llm) == rerank(results, 1, llm)

\* `if not retrieval_resp.results` (main.py:125)
NoResultsNever(results) == FALSE
NoResults(results) == Len(results) = 0

\* replies of the generative model
GenerationReplies ==
  {t \in ReplyTexts : Len(t) <= 1}
    \cup {<<RefusalLine, CurlLine>>, <<CurlLine, TagLine("high")>>,
          <<CurlLineWithoutUrl, OptionLine(FALSE)>>}

\* the command string of a response as the validators see it
RECURSIVE CommandPiecesOf(_)
CommandPiecesOf(lines) ==
  IF lines = <<>> THEN <<>>
  ELSE lines[1].pieces \o CommandPiecesOf(Tail(lines))

\* the same command for the syntax checks of CurlValidator
AsSyntaxPieces(pieces) ==
  [i \in DOMAIN pieces |->
     Piece(pieces[i].kind, Upper(pieces[i].method), pieces[i].kind = "header",
           pieces[i].kind = "header" /\ pieces[i].pattern = 2)]

\* CurlValidator.validate (curl_validator.py:19-58)
curl_validate(command) ==
  IF ~_starts_with_curl(command) THEN [is_valid |-> FALSE, errors |-> <<PrefixError>>]
  ELSE LET errors == CurlMethodErrors(command) \o CurlUrlErrors(command)
                       \o CurlHeaderErrors(command) \o CurlBodyErrors(command)
       IN [is_valid |-> Len(errors) = 0, errors |-> errors]

\* the order in which the command starts its stages
StageOrder ==
  <<"normalize", "embed", "search", "rerank", "build_prompt", "generate", "parse",
    "syntax_validation", "spec_validation", "scoring">>

PipelineIdle ==
  /\ pl_pc = "idle"
  /\ pl_query = <<>>
  /\ pl_top_k = 0
  /\ pl_validate = FALSE
  /\ pl_request = None
  /\ pl_embed_text = None
  /\ pl_embed_calls = 0
  /\ pl_results = <<>>
  /\ pl_rerank_calls = 0
  /\ pl_reranked = <<>>
  /\ pl_top = None
  /\ pl_messages = <<>>
  /\ pl_chat_calls = 0
  /\ pl_reply = None
  /\ pl_response = None
  /\ pl_validated = FALSE
  /\ pl_syntax = None
  /\ pl_spec = None
  /\ pl_confidence = None
  /\ pl_provider = "none"
  /\ pl_raised = "none"
  /\ pl_error = "none"
  /\ pl_outcome = "running"
  /\ pl_ending = "none"
  /\ pl_trace = <<>>

PipelineOnly == UNCHANGED <<rr_vars, vs_vars, rt_vars, ch_vars, qp_vars,
                          sv_vars, cs_vars, ix_vars, cv_vars, ef_vars,
                          wc_vars, eb_vars, gc_vars, sc_vars, vp_vars,
                          pa_vars, ig_vars>>

PipelineInit ==
  /\ pl_pc = "normalize"
  /\ pl_query \in TypedQueries
  /\ pl_top_k \in {TOP_K, TOP_K_MAX + 1}
  /\ pl_validate \in BOOLEAN
  /\ pl_request = None
  /\ pl_embed_text = None
  /\ pl_embed_calls = 0
  /\ pl_results = <<>>
  /\ pl_rerank_calls = 0
  /\ pl_reranked = <<>>
  /\ pl_top = None
  /\ pl_messages = <<>>
  /\ pl_chat_calls = 0
  /\ pl_reply = None
  /\ pl_response = None
  /\ pl_validated = FALSE
  /\ pl_syntax = None
  /\ pl_spec = None
  /\ pl_confidence = None
  /\ pl_provider = "none"
  /\ pl_raised = "none"
  /\ pl_error = "none"
  /\ pl_outcome = "running"
  /\ pl_ending = "none"
  /\ pl_trace = <<>>

\* a stage of StageOrder was started and ended as `result`
Stage(stage, result) == pl_trace' = Append(pl_trace, [stage |-> stage, result |-> result])

\* the stage at pl_pc raises: the except clause of the command prints the
\* error and raises click.Abort (main.py:238-243)
AbortQuietly(exception) ==
  /\ Stage(pl_pc, "raised")
  /\ pl_outcome' = "returned"
  /\ pl_pc' = "done"
  /\ UNCHANGED <<pl_raised, pl_error, pl_ending>>
Abort(exception) ==
  /\ Stage(pl_pc, "raised")
  /\ pl_raised' = exception
  /\ pl_error' = "Query failed: " \o exception
  /\ pl_outcome' = "aborted"
  /\ pl_pc' = "done"
  /\ UNCHANGED pl_ending

\* the stage at pl_pc returns and the command goes on with the stage `next`
Continue(next) ==
  /\ Stage(pl_pc, "returned")
  /\ pl_pc' = next
  /\ UNCHANGED <<pl_raised, pl_error, pl_outcome, pl_ending>>

\* the stage at pl_pc returns and the command returns
ReturnAfter(ending) ==
  /\ Stage(pl_pc, "returned")
  /\ pl_outcome' = "returned"
  /\ pl_ending' = ending
  /\ pl_pc' = "done"
  /\ UNCHANGED <<pl_raised, pl_error>>

\* the command returns between two stages
Return(ending) ==
  /\ pl_outcome' = "returned"
  /\ pl_ending' = ending
  /\ pl_pc' = "done"
  /\ UNCHANGED <<pl_raised, pl_error, pl_trace>>

\* main.py:116, process_query raises
PipelineProcessFails ==
  /\ pl_pc = "normalize"
  /\ \/ EmptyQuery(pl_query) /\ Abort("RetrievalError")
     \/ /\ ~EmptyQuery(pl_query)
        /\ pl_top_k > TOP_K_MAX
        /\ Abort("ValidationError")
  /\ UNCHANGED <<pl_query, pl_top_k, pl_validate, pl_request, pl_embed_text,
                 pl_embed_calls, pl_results, pl_rerank_calls, pl_reranked, pl_top,
                 pl_messages, pl_chat_calls, pl_reply, pl_response, pl_validated,
                 pl_syntax, pl_spec, pl_confidence, pl_provider>>
  /\ PipelineOnly

\* main.py:116
PipelineProcess ==
  /\ pl_pc = "normalize"
  /\ ~EmptyQuery(pl_query)
  /\ pl_top_k <= TOP_K_MAX
  /\ pl_request' = Some(BuildQueryRequest(pl_query, None, Some(pl_top_k)))
  /\ Continue("embed")
  /\ UNCHANGED <<pl_query, pl_top_k, pl_validate, pl_embed_text, pl_embed_calls,
                 pl_results, pl_rerank_calls, pl_reranked, pl_top, pl_messages,
                 pl_chat_calls, pl_reply, pl_response, pl_validated, pl_syntax,
                 pl_spec, pl_confidence, pl_provider>>
  /\ PipelineOnly

\* main.py:121, the provider answers
PipelineEmbed ==
  /\ pl_pc = "embed"
  /\ pl_embed_text' = Some(QueryEmbedText(pl_query, Get(pl_request)))
  /\ pl_embed_calls' = pl_embed_calls + 1
  /\ Continue("search")
  /\ UNCHANGED <<pl_query, pl_top_k, pl_validate, pl_request, pl_results,
                 pl_rerank_calls, pl_reranked, pl_top, pl_messages, pl_chat_calls,
                 pl_reply, pl_response, pl_validated, pl_syntax, pl_spec,
                 pl_confidence, pl_provider>>
  /\ PipelineOnly

\* main.py:121: ollama.embed raises ConnectionError, embed_text raises
\* OllamaConnectionError (embedder.py:75-79), and QueryProcessor.embed_query
\* turns every exception into RetrievalError (query_processor.py:66-69)
PipelineEmbedConnectionError ==
  /\ pl_pc = "embed"
  /\ pl_embed_text' = Some(QueryEmbedText(pl_query, Get(pl_request)))
  /\ pl_embed_calls' = pl_embed_calls + 1
  /\ pl_provider' = "embedding"
  /\ Abort("RetrievalError")
  /\ UNCHANGED <<pl_query, pl_top_k, pl_validate, pl_request, pl_results,
                 pl_rerank_calls, pl_reranked, pl_top, pl_messages, pl_chat_calls,
                 pl_reply, pl_response, pl_validated, pl_syntax, pl_spec,
                 pl_confidence>>
  /\ PipelineOnly

\* main.py:121: any other failure of the embedding (embedder.py:71-72, 80-81)
PipelineEmbedFails ==
  /\ pl_pc = "embed"
  /\ pl_embed_text' = Some(QueryEmbedText(pl_query, Get(pl_request)))
  /\ pl_embed_calls' = pl_embed_calls + 1
  /\ Abort("RetrievalError")
  /\ UNCHANGED <<pl_query, pl_top_k, pl_validate, pl_request, pl_results,
                 pl_rerank_calls, pl_reranked, pl_top, pl_messages, pl_chat_calls,
                 pl_reply, pl_response, pl_validated, pl_syntax, pl_spec,
                 pl_confidence, pl_provider>>
  /\ PipelineOnly

\* main.py:124-127: the search returns its results, and without results the
\* command returns; or the search raises
PipelineSearch ==
  /\ pl_pc = "search"
  /\ \/ /\ pl_results' \in SearchResultLists
        /\ IF NoResults(pl_results') THEN ReturnAfter("no_results") ELSE Continue("rerank")
     \/ /\ pl_results' = <<>>
        /\ Abort("RetrievalError")
  /\ UNCHANGED <<pl_query, pl_top_k, pl_validate, pl_request, pl_embed_text,
                 pl_embed_calls, pl_rerank_calls, pl_reranked, pl_top, pl_messages,
                 pl_chat_calls, pl_reply, pl_response, pl_validated, pl_syntax,
                 pl_spec, pl_confidence, pl_provider>>
  /\ PipelineOnly

\* main.py:133-134: up to one result needs no model call; with more the
\* reranker calls the model once and falls back on any failure but a connection
\* failure; reranked_results[0] raises IndexError on an empty list
PipelineRerank ==
  /\ pl_pc = "rerank"
  /\ \E llm \in IF ReturnsEarly(pl_results) THEN {NoOutcome} ELSE RerankOutcomes :
       /\ pl_rerank_calls' = IF llm = NoOutcome THEN pl_rerank_calls ELSE pl_rerank_calls + 1
       /\ pl_reranked' = QueryRerank(pl_results, llm)
       /\ IF Len(pl_reranked') = 0
            THEN UNCHANGED pl_top /\ Abort("IndexError")
          ELSE pl_top' = Some(pl_reranked'[1]) /\ Continue("build_prompt")
  /\ UNCHANGED <<pl_query, pl_top_k, pl_validate, pl_request, pl_embed_text,
                 pl_embed_calls, pl_results, pl_messages, pl_chat_calls, pl_reply,
                 pl_response, pl_validated, pl_syntax, pl_spec, pl_confidence,
                 pl_provider>>
  /\ PipelineOnly

\* reranker.py:84-87
PipelineRerankConnectionError ==
  /\ pl_pc = "rerank"
  /\ ~ReturnsEarly(pl_results)
  /\ pl_rerank_calls' = pl_rerank_calls + 1
  /\ pl_provider' = "reranker"
  /\ Abort("OllamaConnectionError")
  /\ UNCHANGED <<pl_query, pl_top_k, pl_validate, pl_request, pl_embed_text,
                 pl_embed_calls, pl_results, pl_reranked, pl_top, pl_messages,
                 pl_chat_calls, pl_reply, pl_response, pl_validated, pl_syntax,
                 pl_spec, pl_confidence>>
  /\ PipelineOnly

\* main.py:147-148
PipelineBuildPrompt ==
  /\ pl_pc = "build_prompt"
  /\ Continue("generate")
  /\ UNCHANGED <<pl_query, pl_top_k, pl_validate, pl_request, pl_embed_text,
                 pl_embed_calls, pl_results, pl_rerank_calls, pl_reranked, pl_top,
                 pl_messages, pl_chat_calls, pl_reply, pl_response, pl_validated,
                 pl_syntax, pl_spec, pl_confidence, pl_provider>>
  /\ PipelineOnly

\* main.py:153, llm_client.py:39-72: the model replies
PipelineGenerate ==
  /\ pl_pc = "generate"
  /\ pl_messages' = QueryMessages
  /\ pl_chat_calls' = pl_chat_calls + 1
  /\ pl_reply' \in {Some(t) : t \in GenerationReplies \ {<<>>}}
  /\ Continue("parse")
  /\ UNCHANGED <<pl_query, pl_top_k, pl_validate, pl_request, pl_embed_text,
                 pl_embed_calls, pl_results, pl_rerank_calls, pl_reranked, pl_top,
                 pl_response, pl_validated, pl_syntax, pl_spec, pl_confidence,
                 pl_provider>>
  /\ PipelineOnly

\* llm_client.py:74-80: a connection failure, an empty reply or another failure
PipelineGenerateFails ==
  /\ pl_pc = "generate"
  /\ pl_messages' = QueryMessages
  /\ pl_chat_calls' = pl_chat_calls + 1
  /\ \/ pl_provider' = "generation" /\ Abort("OllamaConnectionError")
     \/ UNCHANGED pl_provider /\ Abort("GenerationError")
  /\ UNCHANGED <<pl_query, pl_top_k, pl_validate, pl_request, pl_embed_text,
                 pl_embed_calls, pl_results, pl_rerank_calls, pl_reranked, pl_top,
                 pl_reply, pl_response, pl_validated, pl_syntax, pl_spec,
                 pl_confidence>>
  /\ PipelineOnly

\* main.py:157, parser.py:29-44: a refusal
PipelineParseRefusal ==
  /\ pl_pc = "parse"
  /\ _is_insufficient_info(Get(pl_reply))
  /\ pl_response' = Some(RefusalResponse)
  /\ Continue("parsed")
  /\ UNCHANGED <<pl_query, pl_top_k, pl_validate, pl_request, pl_embed_text,
                 pl_embed_calls, pl_results, pl_rerank_calls, pl_reranked, pl_top,
                 pl_messages, pl_chat_calls, pl_reply, pl_validated, pl_syntax,
                 pl_spec, pl_confidence, pl_provider>>
  /\ PipelineOnly

\* parser.py:46-77: a command was extracted
PipelineParseCommand ==
  /\ pl_pc = "parse"
  /\ ~_is_insufficient_info(Get(pl_reply))
  /\ ~ParseRaises(Get(pl_reply))
  /\ pl_response' = Some(CommandResponse(Get(pl_reply)))
  /\ Continue("parsed")
  /\ UNCHANGED <<pl_query, pl_top_k, pl_validate, pl_request, pl_embed_text,
                 pl_embed_calls, pl_results, pl_rerank_calls, pl_reranked, pl_top,
                 pl_messages, pl_chat_calls, pl_reply, pl_validated, pl_syntax,
                 pl_spec, pl_confidence, pl_provider>>
  /\ PipelineOnly

\* parser.py:156, 78-79: no command in the reply
PipelineParseFails ==
  /\ pl_pc = "parse"
  /\ ParseRaises(Get(pl_reply))
  /\ Abort("GenerationError")
  /\ UNCHANGED <<pl_query, pl_top_k, pl_validate, pl_request, pl_embed_text,
                 pl_embed_calls, pl_results, pl_rerank_calls, pl_reranked, pl_top,
                 pl_messages, pl_chat_calls, pl_reply, pl_response, pl_validated,
                 pl_syntax, pl_spec, pl_confidence, pl_provider>>
  /\ PipelineOnly

\* main.py:159-167: no command, report and return
PipelineNoCommand ==
  /\ pl_pc = "parsed"
  /\ Get(pl_response).command = <<>>
  /\ Return("no_command")
  /\ UNCHANGED <<pl_query, pl_top_k, pl_validate, pl_request, pl_embed_text,
                 pl_embed_calls, pl_results, pl_rerank_calls, pl_reranked, pl_top,
                 pl_messages, pl_chat_calls, pl_reply, pl_response, pl_validated,
                 pl_syntax, pl_spec, pl_confidence, pl_provider>>
  /\ PipelineOnly

\* main.py:170-171: --validate is not set
PipelineSkipValidation ==
  /\ pl_pc = "parsed"
  /\ Get(pl_response).command # <<>>
  /\ ~pl_validate
  /\ pl_pc' = "output"
  /\ UNCHANGED <<pl_raised, pl_error, pl_outcome, pl_ending, pl_trace>>
  /\ UNCHANGED <<pl_query, pl_top_k, pl_validate, pl_request, pl_embed_text,
                 pl_embed_calls, pl_results, pl_rerank_calls, pl_reranked, pl_top,
                 pl_messages, pl_chat_calls, pl_reply, pl_response, pl_validated,
                 pl_syntax, pl_spec, pl_confidence, pl_provider>>
  /\ PipelineOnly

\* main.py:171-175: --validate is set
PipelineStartValidation ==
  /\ pl_pc = "parsed"
  /\ Get(pl_response).command # <<>>
  /\ pl_validate
  /\ pl_validated' = TRUE
  /\ pl_pc' = "syntax_validation"
  /\ UNCHANGED <<pl_raised, pl_error, pl_outcome, pl_ending, pl_trace>>
  /\ UNCHANGED <<pl_query, pl_top_k, pl_validate, pl_request, pl_embed_text,
                 pl_embed_calls, pl_results, pl_rerank_calls, pl_reranked, pl_top,
                 pl_messages, pl_chat_calls, pl_reply, pl_response, pl_syntax,
                 pl_spec, pl_confidence, pl_provider>>
  /\ PipelineOnly

\* main.py:178
PipelineSyntaxValidation ==
  /\ pl_pc = "syntax_validation"
  /\ pl_syntax' = Some(curl_validate(AsSyntaxPieces(CommandPiecesOf(Get(pl_response).command))))
  /\ Continue("spec_validation")
  /\ UNCHANGED <<pl_query, pl_top_k, pl_validate, pl_request, pl_embed_text,
                 pl_embed_calls, pl_results, pl_rerank_calls, pl_reranked, pl_top,
                 pl_messages, pl_chat_calls, pl_reply, pl_response, pl_validated,
                 pl_spec, pl_confidence, pl_provider>>
  /\ PipelineOnly

\* main.py:183-186
PipelineSpecValidation ==
  /\ pl_pc = "spec_validation"
  /\ LET curl_components == get_curl_components(CommandPiecesOf(Get(pl_response).command))
     IN /\ ~PathCheckRaises(curl_components)
        /\ pl_spec' = Some(validate(curl_components, Get(pl_top).chunk))
  /\ Continue("scoring")
  /\ UNCHANGED <<pl_query, pl_top_k, pl_validate, pl_request, pl_embed_text,
                 pl_embed_calls, pl_results, pl_rerank_calls, pl_reranked, pl_top,
                 pl_messages, pl_chat_calls, pl_reply, pl_response, pl_validated,
                 pl_syntax, pl_confidence, pl_provider>>
  /\ PipelineOnly

\* main.py:183-186: the command holds no URL and _validate_path raises
\* TypeError (spec_validator.py:80-87)
PipelineSpecValidationRaises ==
  /\ pl_pc = "spec_validation"
  /\ PathCheckRaises(get_curl_components(CommandPiecesOf(Get(pl_response).command)))
  /\ Abort("TypeError")
  /\ UNCHANGED <<pl_query, pl_top_k, pl_validate, pl_request, pl_embed_text,
                 pl_embed_calls, pl_results, pl_rerank_calls, pl_reranked, pl_top,
                 pl_messages, pl_chat_calls, pl_reply, pl_response, pl_validated,
                 pl_syntax, pl_spec, pl_confidence, pl_provider>>
  /\ PipelineOnly

\* main.py:192-197, confidence_scorer.py:35
PipelineScoring ==
  /\ pl_pc = "scoring"
  /\ pl_confidence' =
       Some([similarity        |-> Get(pl_top).similarity_score,
             spec_completeness |-> Get(pl_spec).completeness_score,
             validation_passed |-> ValidationPassed(Get(pl_syntax).is_valid,
                                                    Get(pl_spec).is_valid)])
  /\ Continue("output")
  /\ UNCHANGED <<pl_query, pl_top_k, pl_validate, pl_request, pl_embed_text,
                 pl_embed_calls, pl_results, pl_rerank_calls, pl_reranked, pl_top,
                 pl_messages, pl_chat_calls, pl_reply, pl_response, pl_validated,
                 pl_syntax, pl_spec, pl_provider>>
  /\ PipelineOnly

\* main.py:203-236: the command is printed
PipelineOutput ==
  /\ pl_pc = "output"
  /\ Return("printed")
  /\ UNCHANGED <<pl_query, pl_top_k, pl_validate, pl_request, pl_embed_text,
                 pl_embed_calls, pl_results, pl_rerank_calls, pl_reranked, pl_top,
                 pl_messages, pl_chat_calls, pl_reply, pl_response, pl_validated,
                 pl_syntax, pl_spec, pl_confidence, pl_provider>>
  /\ PipelineOnly

(***************************************************************************)
(* The ingest command                                                      *)
(***************************************************************************)
\* a path item with the given verbs
PathItemWith(verbs) == [v \in VerbSet |-> IF v \in verbs THEN Some(OpPlain) ELSE None]

\* spec.paths of the files the command is run on
IngestPaths ==
  {<<>>,
   <<[path |-> "/pay", item |-> PathItemWith({})]>>,
   <<[path |-> "/pay", item |-> PathItemWith({"get"})]>>,
   <<[path |-> "/pay", item |-> PathItemWith({"get", "post"})]>>,
   <<[path |-> "/pay", item |-> PathItemWith({"post"})],
     [path |-> "/refund", item |-> PathItemWith({"post"})]>>}

\* an entry an earlier run stored
OldEntry == [embedding |-> 1, document |-> "v1"]

\* the persisted collection before the run
PersistedCollections ==
  {None, Some(EmptyCollection)}
    \cup {Some([id \in ids |-> OldEntry]) :
            ids \in {{"GET_/pay"}, {"DELETE_/old"}, {"GET_/pay", "DELETE_/old"}}}

\* chunk.chunk_id and chunk.to_embedding_text() of the chunks of this run
AsIndexed(chunks) ==
  [i \in DOMAIN chunks |-> [chunk_id |-> chunks[i].chunk_id, text |-> "v2"]]

\* embed_chunks: one vector per chunk
EmbeddingsOf(chunks) == [i \in DOMAIN chunks |-> 2]

\* client.delete_collection (indexer.py:29-33): the collection goes when the
\* call returns; when it raises, for no collection or for any other reason,
\* the exception is dropped and the collection stays
DeleteOutcomes(store) == IF store = None THEN {"absent"} ELSE {"deleted", "failed"}

AfterDeleteKept(store, outcome) == store
AfterDelete(store, outcome) == IF outcome = "deleted" THEN None ELSE store

\* client.get_or_create_collection (indexer.py:36-42)
get_or_create_collection(store) == IF store = None THEN Some(EmptyCollection) ELSE store

IngestIdle ==
  /\ ig_pc = "idle"
  /\ ig_force = FALSE
  /\ ig_paths = <<>>
  /\ ig_store = None
  /\ ig_store0 = None
  /\ ig_chunks = <<>>
  /\ ig_embeddings = <<>>
  /\ ig_delete = "none"
  /\ ig_raised = "none"
  /\ ig_error = "none"
  /\ ig_outcome = "running"
  /\ ig_trace = <<>>

IngestOnly == UNCHANGED <<rr_vars, vs_vars, rt_vars, ch_vars, qp_vars,
                        sv_vars, cs_vars, ix_vars, cv_vars, ef_vars,
                        wc_vars, eb_vars, pl_vars, gc_vars, sc_vars,
                        vp_vars, pa_vars>>

IngestInit ==
  /\ ig_pc = "parse"
  /\ ig_force \in BOOLEAN
  /\ ig_paths \in IngestPaths
  /\ ig_store \in PersistedCollections
  /\ ig_store0 = ig_store
  /\ ig_chunks = <<>>
  /\ ig_embeddings = <<>>
  /\ ig_delete = "none"
  /\ ig_raised = "none"
  /\ ig_error = "none"
  /\ ig_outcome = "running"
  /\ ig_trace = <<>>

\* the stage at ig_pc raises: the except clause prints the error and raises
\* click.Abort (main.py:77-79)
IngestAbort(exception) ==
  /\ ig_trace' = Append(ig_trace, [stage |-> ig_pc, result |-> "raised"])
  /\ ig_raised' = exception
  /\ ig_error' = "Ingestion failed: " \o exception
  /\ ig_outcome' = "aborted"
  /\ ig_pc' = "done"

\* the stage at ig_pc returns and the command goes on with the stage `next`
IngestContinue(next) ==
  /\ ig_trace' = Append(ig_trace, [stage |-> ig_pc, result |-> "returned"])
  /\ ig_pc' = next
  /\ UNCHANGED <<ig_raised, ig_error, ig_outcome>>

\* main.py:41: parse_file returns the spec, or raises for a missing or malformed file
IngestParse ==
  /\ ig_pc = "parse"
  /\ \/ IngestContinue("validate")
     \/ IngestAbort("SpecParsingError")
  /\ UNCHANGED <<ig_force, ig_paths, ig_store, ig_store0, ig_chunks,
                 ig_embeddings, ig_delete>>
  /\ IngestOnly

\* main.py:42, parser.py:111-129
IngestValidate ==
  /\ ig_pc = "validate"
  /\ IF Len(ig_paths) = 0 \/ ValidOperations(ig_paths) = 0
       THEN IngestAbort("SpecParsingError")
     ELSE IngestContinue("chunk")
  /\ UNCHANGED <<ig_force, ig_paths, ig_store, ig_store0, ig_chunks,
                 ig_embeddings, ig_delete>>
  /\ IngestOnly

\* main.py:48, chunker.py:23-53
IngestChunk ==
  /\ ig_pc = "chunk"
  /\ \/ /\ ChunksOfSpec(ig_paths) # <<>>
        /\ ig_chunks' = ChunksOfSpec(ig_paths)
        /\ IngestContinue("dimension")
     \/ /\ UNCHANGED ig_chunks
        /\ IngestAbort("ChunkingError")
  /\ UNCHANGED <<ig_force, ig_paths, ig_store, ig_store0, ig_embeddings,
                 ig_delete>>
  /\ IngestOnly

\* main.py:56, embedder.py:125-139: one embedding call, any failure is an EmbeddingError
IngestDimension ==
  /\ ig_pc = "dimension"
  /\ \/ IngestContinue("embed")
     \/ IngestAbort("EmbeddingError")
  /\ UNCHANGED <<ig_force, ig_paths, ig_store, ig_store0, ig_chunks,
                 ig_embeddings, ig_delete>>
  /\ IngestOnly

\* main.py:60, embedder.py:36-123
IngestEmbed ==
  /\ ig_pc = "embed"
  /\ \/ /\ ig_embeddings' = EmbeddingsOf(ig_chunks)
        /\ IngestContinue("indexer")
     \/ /\ UNCHANGED ig_embeddings
        /\ \E e \in {"EmbeddingError", "OllamaConnectionError"} : IngestAbort(e)
  /\ UNCHANGED <<ig_force, ig_paths, ig_store, ig_store0, ig_chunks,
                 ig_delete>>
  /\ IngestOnly

\* main.py:65, indexer.py:15-46: ChromaIndexer(reset=force); a failure of the
\* client or of get_or_create_collection is a VectorStoreError
IngestIndexer ==
  /\ ig_pc = "indexer"
  /\ \E outcome \in IF ig_force THEN DeleteOutcomes(ig_store) ELSE {"none"} :
       /\ ig_delete' = outcome
       /\ \/ /\ ig_store' = get_or_create_collection(AfterDelete(ig_store, outcome))
             /\ IngestContinue("index")
          \/ /\ ig_store' = AfterDelete(ig_store, outcome)
             /\ IngestAbort("VectorStoreError")
  /\ UNCHANGED <<ig_force, ig_paths, ig_store0, ig_chunks, ig_embeddings>>
  /\ IngestOnly

\* main.py:66, indexer.py:62-86
IngestIndex ==
  /\ ig_pc = "index"
  /\ \/ /\ ig_store' = Some(CollectionAdd(Get(ig_store), AsIndexed(ig_chunks), ig_embeddings))
        /\ IngestContinue("info")
     \/ /\ UNCHANGED ig_store
        /\ IngestAbort("VectorStoreError")
  /\ UNCHANGED <<ig_force, ig_paths, ig_store0, ig_chunks, ig_embeddings,
                 ig_delete>>
  /\ IngestOnly

\* main.py:69-75
IngestInfo ==
  /\ ig_pc = "info"
  /\ \/ /\ ig_trace' = Append(ig_trace, [stage |-> ig_pc, result |-> "returned"])
        /\ ig_outcome' = "returned"
        /\ ig_pc' = "done"
        /\ UNCHANGED <<ig_raised, ig_error>>
     \/ IngestAbort("VectorStoreError")
  /\ UNCHANGED <<ig_force, ig_paths, ig_store, ig_store0, ig_chunks,
                 ig_embeddings, ig_delete>>
  /\ IngestOnly

(***************************************************************************)
(* Specifications                                                          *)
(***************************************************************************)
InitRerank == RerankInit /\ SearchIdle /\ RoundTripIdle /\ ChunkerIdle /\ QueryIdle
  /\ ValidatorIdle /\ ConfidenceIdle
  /\ IndexerIdle
  /\ CurlIdle
  /\ ExtractIdle
  /\ WhereIdle
  /\ EmbedIdle
  /\ PipelineIdle
  /\ ComponentsIdle
  /\ ScorerIdle
  /\ EmptinessIdle
  /\ ParserIdle
  /\ IngestIdle

NextRerank ==
  \/ RerankReturnEarly
  \/ RerankCallModel
  \/ RerankApply
  \/ RerankConnectionError
  \/ RerankFallback

SpecRerank == InitRerank /\ [][NextRerank]_vars

InitSearch == RerankIdle /\ SearchInit /\ RoundTripIdle /\ ChunkerIdle /\ QueryIdle
  /\ ValidatorIdle /\ ConfidenceIdle
  /\ IndexerIdle
  /\ CurlIdle
  /\ ExtractIdle
  /\ WhereIdle
  /\ EmbedIdle
  /\ PipelineIdle
  /\ ComponentsIdle
  /\ ScorerIdle
  /\ EmptinessIdle
  /\ ParserIdle
  /\ IngestIdle

NextSearch == SearchParse

SpecSearch == InitSearch /\ [][NextSearch]_vars

InitRoundTrip == RerankIdle /\ SearchIdle /\ RoundTripInit /\ ChunkerIdle /\ QueryIdle
  /\ ValidatorIdle /\ ConfidenceIdle
  /\ IndexerIdle
  /\ CurlIdle
  /\ ExtractIdle
  /\ WhereIdle
  /\ EmbedIdle
  /\ PipelineIdle
  /\ ComponentsIdle
  /\ ScorerIdle
  /\ EmptinessIdle
  /\ ParserIdle
  /\ IngestIdle

NextRoundTrip ==
  \/ RoundTripIndex
  \/ RoundTripReconstruct

SpecRoundTrip == InitRoundTrip /\ [][NextRoundTrip]_vars

InitChunker == RerankIdle /\ SearchIdle /\ RoundTripIdle /\ ChunkerInit /\ QueryIdle
  /\ ValidatorIdle /\ ConfidenceIdle
  /\ IndexerIdle
  /\ CurlIdle
  /\ ExtractIdle
  /\ WhereIdle
  /\ EmbedIdle
  /\ PipelineIdle
  /\ ComponentsIdle
  /\ ScorerIdle
  /\ EmptinessIdle
  /\ ParserIdle
  /\ IngestIdle

NextChunker ==
  \/ ChunkPath
  \/ ChunkRaiseEmpty
  \/ ChunkReturn

SpecChunker == InitChunker /\ [][NextChunker]_vars

InitQuery == RerankIdle /\ SearchIdle /\ RoundTripIdle /\ ChunkerIdle /\ QueryInit
  /\ ValidatorIdle /\ ConfidenceIdle
  /\ IndexerIdle
  /\ CurlIdle
  /\ ExtractIdle
  /\ WhereIdle
  /\ EmbedIdle
  /\ PipelineIdle
  /\ ComponentsIdle
  /\ ScorerIdle
  /\ EmptinessIdle
  /\ ParserIdle
  /\ IngestIdle

NextQuery ==
  \/ ProcessQueryRejectEmpty
  \/ ProcessQueryReturn
  \/ ProcessQueryInvalidTopK

SpecQuery == InitQuery /\ [][NextQuery]_vars

InitValidate ==
  /\ RerankIdle /\ SearchIdle /\ RoundTripIdle /\ ChunkerIdle /\ QueryIdle
  /\ ValidatorInit /\ ConfidenceIdle
  /\ IndexerIdle
  /\ CurlIdle
  /\ ExtractIdle
  /\ WhereIdle
  /\ EmbedIdle
  /\ PipelineIdle
  /\ ComponentsIdle
  /\ ScorerIdle
  /\ EmptinessIdle
  /\ ParserIdle
  /\ IngestIdle

NextValidate ==
  \/ ValidateReturn
  \/ ValidateRaise

SpecValidate == InitValidate /\ [][NextValidate]_vars

InitConfidence ==
  /\ RerankIdle /\ SearchIdle /\ RoundTripIdle /\ ChunkerIdle /\ QueryIdle
  /\ ValidatorIdle /\ ConfidenceInit
  /\ IndexerIdle
  /\ CurlIdle
  /\ ExtractIdle
  /\ WhereIdle
  /\ EmbedIdle
  /\ PipelineIdle
  /\ ComponentsIdle
  /\ ScorerIdle
  /\ EmptinessIdle
  /\ ParserIdle
  /\ IngestIdle

NextConfidence == Calculate

SpecConfidence == InitConfidence /\ [][NextConfidence]_vars

InitIndexer ==
  /\ RerankIdle /\ SearchIdle /\ ChunkerIdle /\ RoundTripIdle
  /\ QueryIdle /\ ValidatorIdle /\ ConfidenceIdle
  /\ IndexerInit
  /\ CurlIdle
  /\ ExtractIdle
  /\ WhereIdle
  /\ EmbedIdle
  /\ PipelineIdle
  /\ ComponentsIdle
  /\ ScorerIdle
  /\ EmptinessIdle
  /\ ParserIdle
  /\ IngestIdle

NextIndexer ==
  \/ IndexRaiseMismatch
  \/ IndexReturnEmpty
  \/ IndexAdd
  \/ IndexAddFails
  \/ IngestAgain

SpecIndexer == InitIndexer /\ [][NextIndexer]_vars

InitCurl ==
  /\ RerankIdle /\ SearchIdle /\ ChunkerIdle /\ RoundTripIdle
  /\ QueryIdle /\ ValidatorIdle /\ ConfidenceIdle /\ IndexerIdle
  /\ CurlInit
  /\ ExtractIdle
  /\ WhereIdle
  /\ EmbedIdle
  /\ PipelineIdle
  /\ ComponentsIdle
  /\ ScorerIdle
  /\ EmptinessIdle
  /\ ParserIdle
  /\ IngestIdle

NextCurl ==
  \/ CurlRejectPrefix
  \/ CurlRunChecks

SpecCurl == InitCurl /\ [][NextCurl]_vars

InitExtract ==
  /\ RerankIdle /\ SearchIdle /\ ChunkerIdle /\ RoundTripIdle
  /\ QueryIdle /\ ValidatorIdle /\ ConfidenceIdle /\ IndexerIdle /\ CurlIdle
  /\ ExtractInit
  /\ WhereIdle
  /\ EmbedIdle
  /\ PipelineIdle
  /\ ComponentsIdle
  /\ ScorerIdle
  /\ EmptinessIdle
  /\ ParserIdle
  /\ IngestIdle

NextExtract == ExtractFilters

SpecExtract == InitExtract /\ [][NextExtract]_vars

InitWhere ==
  /\ RerankIdle /\ SearchIdle /\ ChunkerIdle /\ RoundTripIdle
  /\ QueryIdle /\ ValidatorIdle /\ ConfidenceIdle /\ IndexerIdle
  /\ CurlIdle /\ ExtractIdle
  /\ WhereInit
  /\ EmbedIdle
  /\ PipelineIdle
  /\ ComponentsIdle
  /\ ScorerIdle
  /\ EmptinessIdle
  /\ ParserIdle
  /\ IngestIdle

NextWhere == BuildWhereClause

SpecWhere == InitWhere /\ [][NextWhere]_vars

InitEmbed ==
  /\ RerankIdle /\ SearchIdle /\ ChunkerIdle /\ RoundTripIdle
  /\ QueryIdle /\ ValidatorIdle /\ ConfidenceIdle /\ IndexerIdle
  /\ CurlIdle /\ ExtractIdle /\ WhereIdle
  /\ EmbedInit
  /\ PipelineIdle
  /\ ComponentsIdle
  /\ ScorerIdle
  /\ EmptinessIdle
  /\ ParserIdle
  /\ IngestIdle

NextEmbed ==
  \/ EmbedBatchEmpty
  \/ EmbedBatchCall
  \/ EmbedBatchNoEmbeddings
  \/ EmbedBatchWrongLength
  \/ EmbedBatchReturn
  \/ EmbedBatchConnectionError
  \/ EmbedBatchOtherException

SpecEmbed == InitEmbed /\ [][NextEmbed]_vars

InitPipeline ==
  /\ RerankIdle /\ SearchIdle /\ ChunkerIdle /\ RoundTripIdle
  /\ QueryIdle /\ ValidatorIdle /\ ConfidenceIdle /\ IndexerIdle
  /\ CurlIdle /\ ExtractIdle /\ WhereIdle /\ EmbedIdle
  /\ PipelineInit
  /\ ComponentsIdle
  /\ ScorerIdle
  /\ EmptinessIdle
  /\ ParserIdle
  /\ IngestIdle

NextPipeline ==
  \/ PipelineProcessFails
  \/ PipelineProcess
  \/ PipelineEmbed
  \/ PipelineEmbedConnectionError
  \/ PipelineEmbedFails
  \/ PipelineSearch
  \/ PipelineRerank
  \/ PipelineRerankConnectionError
  \/ PipelineBuildPrompt
  \/ PipelineGenerate
  \/ PipelineGenerateFails
  \/ PipelineParseRefusal
  \/ PipelineParseCommand
  \/ PipelineParseFails
  \/ PipelineNoCommand
  \/ PipelineSkipValidation
  \/ PipelineStartValidation
  \/ PipelineSyntaxValidation
  \/ PipelineSpecValidation
  \/ PipelineSpecValidationRaises
  \/ PipelineScoring
  \/ PipelineOutput

SpecPipeline == InitPipeline /\ [][NextPipeline]_vars

InitComponents ==
  /\ RerankIdle /\ SearchIdle /\ ChunkerIdle /\ RoundTripIdle
  /\ QueryIdle /\ ValidatorIdle /\ ConfidenceIdle /\ IndexerIdle
  /\ CurlIdle /\ ExtractIdle /\ WhereIdle /\ EmbedIdle
  /\ PipelineIdle
  /\ ComponentsInit
  /\ ScorerIdle
  /\ EmptinessIdle
  /\ ParserIdle
  /\ IngestIdle

NextComponents ==
  \/ GetCurlComponents
  \/ ComponentsValidateReturn
  \/ ComponentsValidateRaise

SpecComponents == InitComponents /\ [][NextComponents]_vars

InitScorer ==
  /\ RerankIdle /\ SearchIdle /\ ChunkerIdle /\ RoundTripIdle
  /\ QueryIdle /\ ValidatorIdle /\ ConfidenceIdle /\ IndexerIdle
  /\ CurlIdle /\ ExtractIdle /\ WhereIdle /\ EmbedIdle
  /\ PipelineIdle /\ ComponentsIdle
  /\ ScorerInit
  /\ EmptinessIdle
  /\ ParserIdle
  /\ IngestIdle

NextScorer == CalculateScore

SpecScorer == InitScorer /\ [][NextScorer]_vars

InitEmptiness ==
  /\ RerankIdle /\ SearchIdle /\ ChunkerIdle /\ RoundTripIdle
  /\ QueryIdle /\ ValidatorIdle /\ ConfidenceIdle /\ IndexerIdle
  /\ CurlIdle /\ ExtractIdle /\ WhereIdle /\ EmbedIdle
  /\ PipelineIdle /\ ComponentsIdle /\ ScorerIdle
  /\ EmptinessInit
  /\ ParserIdle
  /\ IngestIdle

NextEmptiness ==
  \/ ValidateSpecNoPaths
  \/ ValidateSpecNoOperations
  \/ ValidateSpecReturn
  \/ ChunkSpecRaiseEmpty
  \/ ChunkSpecReturn

SpecEmptiness == InitEmptiness /\ [][NextEmptiness]_vars

InitParser ==
  /\ RerankIdle /\ SearchIdle /\ ChunkerIdle /\ RoundTripIdle
  /\ QueryIdle /\ ValidatorIdle /\ ConfidenceIdle /\ IndexerIdle
  /\ CurlIdle /\ ExtractIdle /\ WhereIdle /\ EmbedIdle
  /\ PipelineIdle /\ ComponentsIdle /\ ScorerIdle /\ EmptinessIdle
  /\ ParserInit
  /\ IngestIdle

NextParser ==
  \/ ParseReturn
  \/ ParseRaise

SpecParser == InitParser /\ [][NextParser]_vars

InitIngest ==
  /\ RerankIdle /\ SearchIdle /\ ChunkerIdle /\ RoundTripIdle
  /\ QueryIdle /\ ValidatorIdle /\ ConfidenceIdle /\ IndexerIdle
  /\ CurlIdle /\ ExtractIdle /\ WhereIdle /\ EmbedIdle
  /\ ComponentsIdle /\ ScorerIdle /\ EmptinessIdle /\ ParserIdle
  /\ PipelineIdle
  /\ IngestInit

NextIngest ==
  \/ IngestParse
  \/ IngestValidate
  \/ IngestChunk
  \/ IngestDimension
  \/ IngestEmbed
  \/ IngestIndexer
  \/ IngestIndex
  \/ IngestInfo

SpecIngest == InitIngest /\ [][NextIngest]_vars

\* one invocation of the command line: ingest or query
InitCli ==
  /\ RerankIdle /\ SearchIdle /\ ChunkerIdle /\ RoundTripIdle
  /\ QueryIdle /\ ValidatorIdle /\ ConfidenceIdle /\ IndexerIdle
  /\ CurlIdle /\ ExtractIdle /\ WhereIdle /\ EmbedIdle
  /\ ComponentsIdle /\ ScorerIdle /\ EmptinessIdle /\ ParserIdle
  /\ \/ PipelineInit /\ IngestIdle
     \/ PipelineIdle /\ IngestInit

NextCli ==
  \/ PipelineProcessFails
  \/ PipelineProcess
  \/ PipelineEmbed
  \/ PipelineEmbedConnectionError
  \/ PipelineEmbedFails
  \/ PipelineSearch
  \/ PipelineRerank
  \/ PipelineRerankConnectionError
  \/ PipelineBuildPrompt
  \/ PipelineGenerate
  \/ PipelineGenerateFails
  \/ PipelineParseRefusal
  \/ PipelineParseCommand
  \/ PipelineParseFails
  \/ PipelineNoCommand
  \/ PipelineSkipValidation
  \/ PipelineStartValidation
  \/ PipelineSyntaxValidation
  \/ PipelineSpecValidation
  \/ PipelineSpecValidationRaises
  \/ PipelineScoring
  \/ PipelineOutput
  \/ IngestParse
  \/ IngestValidate
  \/ IngestChunk
  \/ IngestDimension
  \/ IngestEmbed
  \/ IngestIndexer
  \/ IngestIndex
  \/ IngestInfo

SpecCli == InitCli /\ [][NextCli]_vars

(***************************************************************************)
(* Properties                                                              *)
(***************************************************************************)

RerankDone == rr_pc = "done"

\* what the caller sees when rerank returned the first top_n results as they were
ReturnedOriginalTopN ==
  /\ rr_raised = "none"
  /\ Len(rr_return) = Min(rr_top_n, Len(rr_results))
  /\ \A i \in 1..Len(rr_return) : rr_return[i] = rr_results[i]
  /\ rr_rank = rr_rank0

NamedIndex == _parse_ranking(rr_llm.text, Len(rr_results))[1]

ModelNamedAnIndex ==
  /\ RerankDone
  /\ rr_llm.kind = "reply"
  /\ \E i \in DOMAIN rr_llm.text :
        rr_llm.text[i].kind \in {"label", "num"} /\ rr_llm.text[i].n = NamedIndex
  /\ InRange(NamedIndex, Len(rr_results))

\* result c first, then every other result in its original relative order
ChosenFirst(c) ==
  <<rr_results[c]>> \o SelectSeq(rr_results, LAMBDA r : r # rr_results[c])

\* C7: when the model names index c in 1..K (K >= 2), the returned list is the
\* first top_n elements of [result c, then the others in their original
\* relative order], its elements carry ranks 1, 2, 3, ... in that order, and
\* no result appears twice.
C7_ChosenFirstRenumbered ==
  ModelNamedAnIndex =>
    /\ rr_raised = "none"
    /\ rr_return = Take(ChosenFirst(NamedIndex), rr_top_n)
    /\ \A i \in 1..Len(rr_return) : rr_rank[rr_return[i]] = i
    /\ \A i, j \in 1..Len(rr_return) : rr_return[i] = rr_return[j] => i = j

C7_Witness ==
  /\ ModelNamedAnIndex
  /\ Len(rr_results) = 3
  /\ NamedIndex = 3
  /\ rr_top_n = 2
  /\ rr_return = <<3, 1>>
  /\ rr_rank[3] = 1 /\ rr_rank[1] = 2

\* C8: rerank called with zero or one result returns its input unchanged (same
\* elements, same ranks) and makes no call to the generative model.
C8_ShortInputNoModelCall ==
  (RerankDone /\ Len(rr_results) <= 1) =>
    /\ rr_return = rr_results
    /\ rr_rank = rr_rank0
    /\ rr_raised = "none"
    /\ rr_calls = 0

C8_Witness ==
  /\ RerankDone
  /\ Len(rr_results) = 1
  /\ rr_rank0[1] = 2
  /\ rr_top_n = 0
  /\ rr_return = <<1>>

SearchDone == vs_pc = "done"

\* C2: the ranks of the results VectorSearcher returns are exactly 1, 2, ..., m
\* (m = number of results surviving the threshold), in the store's returned
\* order; a dropped below-threshold neighbour leaves no gap.
C2_RanksContiguous ==
  SearchDone => \A i \in 1..Len(vs_results) : vs_results[i].rank = i

\* a neighbour is kept when 1 - d/2 >= 1/2, d = distance / DistanceScale
KeptNeighbours ==
  SelectSeq([i \in 1..Len(vs_distances) |-> i],
            LAMBDA i : 2 * (2 * DistanceScale - vs_distances[i]) >= 2 * DistanceScale)

\* C3: the retrieval output is exactly the store neighbours whose similarity
\* 1 - d/2 is not below the threshold, in the store's order; nothing below the
\* threshold appears, a similarity equal to the threshold is kept, and
\* distances 0, 1, 2 give similarities 1.0, 0.5, 0.0.
C3_ThresholdFilter ==
  SearchDone =>
    /\ [i \in 1..Len(vs_results) |-> vs_results[i].chunk_id] = KeptNeighbours
    /\ \A i \in 1..Len(vs_results) :
          /\ vs_results[i].similarity_score
                = 2 * DistanceScale - vs_distances[vs_results[i].chunk_id]
          /\ 100 * vs_results[i].similarity_score
                >= SIMILARITY_THRESHOLD * 2 * DistanceScale
    /\ Similarity(0) = 2 * DistanceScale
    /\ 2 * Similarity(DistanceScale) = 2 * DistanceScale
    /\ Similarity(2 * DistanceScale) = 0

C3_Witness ==
  /\ SearchDone
  /\ vs_distances = <<DistanceScale, DistanceScale + 1, 0>>
  /\ Len(vs_results) = 2
  /\ vs_results[1].chunk_id = 1 /\ vs_results[2].chunk_id = 3

RoundTripDone == rt_pc = "done"

\* C10: converting a chunk to the stored metadata record and rebuilding a chunk
\* from that record yields exactly the same method, path, tag list,
\* requires_auth flag and content type, with description, parameters and
\* responses empty.
C10_RoundTripPreserves ==
  RoundTripDone =>
    /\ rt_rebuilt.method = rt_chunk.method
    /\ rt_rebuilt.path = rt_chunk.path
    /\ rt_rebuilt.metadata.method = rt_chunk.metadata.method
    /\ rt_rebuilt.metadata.endpoint = rt_chunk.metadata.endpoint
    /\ rt_rebuilt.metadata.tags = rt_chunk.metadata.tags
    /\ rt_rebuilt.metadata.requires_auth = rt_chunk.metadata.requires_auth
    /\ rt_rebuilt.metadata.content_type = rt_chunk.metadata.content_type
    /\ rt_rebuilt.description = NoneVal
    /\ rt_rebuilt.parameters = <<>>
    /\ rt_rebuilt.responses = {}

ChunkerReturned == ch_pc = "done" /\ ch_raised = "none"

\* the verb order the claim states
ClaimedVerbOrder == <<"get", "post", "put", "delete", "patch", "options", "head">>

\* the declared operations of the spec: (path index, verb index) pairs
DeclaredOperations ==
  {pv \in (1..Len(ch_paths)) \X (1..Len(ClaimedVerbOrder)) :
     ch_paths[pv[1]].item[ClaimedVerbOrder[pv[2]]] # None}

\* path order first, verb order second
Before(a, b) == a[1] < b[1] \/ (a[1] = b[1] /\ a[2] < b[2])

PositionOf(pv) == 1 + Cardinality({o \in DeclaredOperations : Before(o, pv)})

\* C9: chunk_spec returns exactly one chunk per non-null verb operation, in path
\* order then verb order get, post, put, delete, patch, options, head, each
\* with chunk_id "{METHOD}_{path}" (method upper-cased), and all chunk ids are
\* pairwise distinct.
C9_OneChunkPerOperation ==
  ChunkerReturned =>
    /\ Len(ch_chunks) = Cardinality(DeclaredOperations)
    /\ \A pv \in DeclaredOperations :
          LET chunk == ch_chunks[PositionOf(pv)]
              path  == ch_paths[pv[1]].path
              verb  == ClaimedVerbOrder[pv[2]]
          IN /\ chunk.path = path
             /\ chunk.method = Upper(verb)
             /\ chunk.chunk_id = Upper(verb) \o "_" \o path
             /\ chunk.description = Get(ch_paths[pv[1]].item[verb]).description
    /\ \A i, j \in 1..Len(ch_chunks) :
          ch_chunks[i].chunk_id = ch_chunks[j].chunk_id => i = j

C9_Witness ==
  /\ ChunkerReturned
  /\ Len(ch_paths) = 2
  /\ Len(ch_chunks) = 3
  /\ ch_chunks[1].chunk_id = "GET_/pay/{id}"
  /\ ch_chunks[2].chunk_id = "POST_/pay/{id}"
  /\ ch_chunks[3].chunk_id = "DELETE_/pay"

QueryReturned == qp_pc = "done" /\ qp_raised = "none"

CallerDict == IF qp_filters = None THEN EmptyDict ELSE Get(qp_filters)

AutoDict == _extract_filters(_normalize_query(qp_query))

ReturnedDict ==
  IF Get(qp_request).filters = None THEN EmptyDict ELSE Get(Get(qp_request).filters)

\* C4: when the caller passes an explicit filter for a key that auto-detection
\* also infers from the query text, the merged filters of the returned
\* QueryRequest hold the caller's value for that key; keys present on only
\* one side are kept.
C4_ExplicitFilterWins ==
  QueryReturned =>
    /\ DOMAIN ReturnedDict = DOMAIN CallerDict \cup DOMAIN AutoDict
    /\ \A k \in DOMAIN CallerDict : ReturnedDict[k] = CallerDict[k]
    /\ \A k \in DOMAIN AutoDict \ DOMAIN CallerDict : ReturnedDict[k] = AutoDict[k]

ValidateDone == sv_pc = "done" /\ sv_raised = "none"

FullCoverage(params) == params.found = params.total

AllFiveChecksPass ==
  /\ _validate_method(Get(sv_curl), Get(sv_chunk))
  /\ _validate_path(Get(sv_curl), Get(sv_chunk))
  /\ _validate_auth(Get(sv_curl), Get(sv_chunk))
  /\ _validate_content_type(Get(sv_curl), Get(sv_chunk))
  /\ FullCoverage(_validate_required_params(Get(sv_curl), Get(sv_chunk)))

FullScore(score) == score.num = score.den

\* C5: validate returns valid = true if and only if all five checks pass
\* (method, path, auth header, content-type header, full required-parameter
\* coverage), so valid = true implies a completeness score of exactly 1.0.
C5_ValidIffAllFiveChecks ==
  ValidateDone =>
    /\ Get(sv_return).is_valid <=> AllFiveChecksPass
    /\ Get(sv_return).is_valid => FullScore(Get(sv_return).completeness_score)

ConfidenceDone == cs_pc = "done"

ClaimedOverall ==
  4 * cs_similarity + 3 * cs_spec_completeness
    + 3 * (IF cs_validation_passed THEN ScoreGrid ELSE 0)

IndexDone == ix_pc = "done"

\* index_chunks was given an id the collection already held
ReindexedIds == IdsOf(ix_chunks) \cap DOMAIN ix_store0

\* C11: index_chunks on a chunk id that is already stored succeeds and replaces
\* the stored entry: after the call every id of the call holds the entry of this
\* call, and ids not in the call keep theirs.
C11_UpsertReplaces ==
  (/\ IndexDone
   /\ ~CountMismatch(ix_chunks, ix_embeddings)
   /\ ReindexedIds # {}) =>
    /\ ix_raised = "none"
    /\ DOMAIN ix_store = DOMAIN ix_store0 \cup IdsOf(ix_chunks)
    /\ \A id \in IdsOf(ix_chunks) : ix_store[id] = EntryOf(ix_chunks, ix_embeddings, id)

\* C12: a length mismatch raises VectorStoreError before anything else, with no
\* call of the store and the collection untouched; two empty lists return
\* without a call of the store; a mismatch with an empty chunk list still raises.
C12_MismatchThenEmpty ==
  IndexDone =>
    /\ Len(ix_chunks) # Len(ix_embeddings) =>
         ix_raised = "VectorStoreError" /\ ix_adds = 0 /\ ix_store = ix_store0
    /\ (Len(ix_chunks) = 0 /\ Len(ix_embeddings) = 0) =>
         ix_raised = "none" /\ ix_adds = 0 /\ ix_store = ix_store0

\* an empty chunk list with a non-empty vector list was rejected
C12_Witness ==
  /\ IndexDone
  /\ Len(ix_chunks) = 0
  /\ Len(ix_embeddings) # 0
  /\ ix_raised = "VectorStoreError"
  /\ ix_store # EmptyCollection

CurlDone == cv_pc = "done"

HasCurlPrefix ==
  \E i \in DOMAIN cv_command :
    /\ cv_command[i].kind = "curl"
    /\ \A j \in 1..(i - 1) : cv_command[j].kind = "blank"
    /\ \E j \in (i + 1)..Len(cv_command) : cv_command[j].kind # "blank"

BadMethodCount ==
  Cardinality({i \in DOMAIN cv_command :
                 /\ cv_command[i].kind = "method"
                 /\ cv_command[i].method \notin {"POST", "get"}})

NoUrlCount ==
  IF \E i \in DOMAIN cv_command : cv_command[i].kind = "url" \/ cv_command[i].placeholder
    THEN 0 ELSE 1

BadHeaderCount ==
  Cardinality({i \in DOMAIN cv_command :
                 cv_command[i].kind = "header" /\ ~cv_command[i].colon})

ErrorsOf(check) ==
  Len(SelectSeq(Get(cv_return).errors, LAMBDA e : e.check = check))

\* C13: without the "curl " prefix validate returns invalid with exactly the
\* prefix error and runs no other check; otherwise it runs the method, URL and
\* header checks, all of them, returns the errors of all three, is valid
\* exactly when there is none, and the body never adds an error.
C13_PrefixShortCircuitsOthersCollect ==
  CurlDone =>
    LET r == Get(cv_return)
    IN /\ ~HasCurlPrefix =>
            /\ r = [is_valid |-> FALSE, errors |-> <<PrefixError>>]
            /\ cv_checks = <<"prefix">>
       /\ HasCurlPrefix =>
            /\ {"method", "url", "headers"} \subseteq Range(cv_checks)
            /\ ErrorsOf("prefix") = 0
            /\ ErrorsOf("method") = BadMethodCount
            /\ ErrorsOf("url") = NoUrlCount
            /\ ErrorsOf("header") = BadHeaderCount
            /\ Len(r.errors) = BadMethodCount + NoUrlCount + BadHeaderCount
            /\ r.is_valid <=> (BadMethodCount + NoUrlCount + BadHeaderCount = 0)

\* a command with the prefix that fails two checks at once
C13_Witness ==
  /\ CurlDone
  /\ HasCurlPrefix
  /\ ErrorsOf("method") = 1
  /\ ErrorsOf("url") = 1
  /\ \E i \in DOMAIN cv_command : cv_command[i].kind = "method"

ExtractDone == ef_pc = "done"

ClaimedMethodOrder == <<"post", "get", "put", "delete", "patch">>

ClaimedTagOrder == <<"payment", "user", "order", "product">>

\* the entries of a keyword table with a keyword inside the lower-cased query
Matching(table) ==
  {i \in DOMAIN table :
     \E k \in DOMAIN table[i].keywords : Contains(Lower(ef_query), table[i].keywords[k])}

Least(S) == CHOOSE i \in S : \A j \in S : i <= j

\* C15: the method is that of the first entry, in the order post, get, put,
\* delete, patch, with a keyword inside the lower-cased query, and is unset when
\* there is none; the tag is that of the first matching entry in the order
\* payment, user, order, product, whatever the method; the query
\* "  gyeol-je   seung-in   cheo-ri  " gives exactly {tags: payment}.
C15_FirstMatchWins ==
  /\ [i \in DOMAIN method_keywords |-> method_keywords[i].method] = ClaimedMethodOrder
  /\ [i \in DOMAIN tag_keywords |-> tag_keywords[i].tag] = ClaimedTagOrder
  /\ ExtractDone =>
       LET filters == Get(ef_filters)
       IN /\ DOMAIN filters \subseteq {"method", "tags"}
          /\ "method" \in DOMAIN filters <=> Matching(method_keywords) # {}
          /\ "method" \in DOMAIN filters =>
               filters["method"] = Upper(ClaimedMethodOrder[Least(Matching(method_keywords))])
          /\ "tags" \in DOMAIN filters <=> Matching(tag_keywords) # {}
          /\ "tags" \in DOMAIN filters =>
               filters["tags"] = ClaimedTagOrder[Least(Matching(tag_keywords))]
          /\ ef_query = ApprovalQuery => filters = [k \in {"tags"} |-> "payment"]

\* the approval query was processed and gave the payment tag only
C15_Witness ==
  /\ ExtractDone
  /\ ef_query = ApprovalQuery
  /\ Get(ef_filters) = [k \in {"tags"} |-> "payment"]

WhereDone == wc_pc = "done"

WhereFiltersDict == IF wc_filters = None THEN EmptyDict ELSE Get(wc_filters)

SupportedPresent == DOMAIN WhereFiltersDict \cap {"method", "requires_auth", "content_type"}

\* the $eq predicates of a where condition
PredicatesOf(where) ==
  IF where = None THEN {}
  ELSE IF Get(where).op = "$and" THEN Range(Get(where).conditions)
  ELSE {Get(where)}

WithoutTags(filters) ==
  IF filters = None THEN None
  ELSE Some([k \in DOMAIN Get(filters) \ {"tags"} |-> Get(filters)[k]])

\* C16: no predicate on "tags" is ever emitted; no supported field gives None,
\* one gives a single $eq predicate, two or more give one $and over their $eq
\* predicates; the tags entry changes nothing about the other predicates.
C16_TagsDropped ==
  WhereDone =>
    /\ \A p \in PredicatesOf(wc_where) : p.field # "tags" /\ p.op = "$eq"
    /\ PredicatesOf(wc_where) =
         {EqCondition(f, WhereFiltersDict[f]) : f \in SupportedPresent}
    /\ Cardinality(SupportedPresent) = 0 <=> wc_where = None
    /\ Cardinality(SupportedPresent) = 1 <=> (wc_where # None /\ Get(wc_where).op = "$eq")
    /\ Cardinality(SupportedPresent) >= 2 <=>
         (/\ wc_where # None
          /\ Get(wc_where).op = "$and"
          /\ Len(Get(wc_where).conditions) = Cardinality(SupportedPresent))
    /\ wc_where = _build_where_clause(WithoutTags(wc_filters))

\* a filter map with tags and two supported fields gave an $and of two
C16_Witness ==
  /\ WhereDone
  /\ "tags" \in DOMAIN WhereFiltersDict
  /\ Cardinality(SupportedPresent) = 2
  /\ wc_where # None
  /\ Get(wc_where).op = "$and"

EmbedDone == eb_pc = "done"

\* C17: embed_batch returns a list as long as its input or raises; no text
\* means an empty list and no provider call; otherwise there is exactly one
\* provider call, and a response without embeddings, with an empty list or with
\* a list of another length is an EmbeddingError.
C17_SameLengthOrRaise ==
  /\ eb_calls <= 1
  /\ EmbedDone =>
       /\ (eb_raised = "none") # (eb_return = None)
       /\ eb_raised = "none" => Len(Get(eb_return)) = Len(eb_texts)
       /\ Len(eb_texts) = 0 => (eb_calls = 0 /\ eb_raised = "none" /\ eb_return = Some(<<>>))
       /\ Len(eb_texts) # 0 => eb_calls = 1
       /\ (/\ eb_provider.kind = "response"
           /\ \/ eb_provider.embeddings = None
              \/ Len(Get(eb_provider.embeddings)) # Len(eb_texts)) =>
            eb_raised = "EmbeddingError"

\* several texts were embedded by one provider call
C17_Witness ==
  /\ EmbedDone
  /\ Len(eb_texts) >= 2
  /\ eb_calls = 1
  /\ eb_raised = "none"
  /\ Len(Get(eb_return)) = Len(eb_texts)

\* whether llm_output holds a line of the given kind
ReplyHas(kind) ==
  IF pl_reply = None THEN FALSE
  ELSE \E i \in DOMAIN Get(pl_reply) : Get(pl_reply)[i].kind = kind

\* C14: a reply with a refusal marker, with or without a curl block, is parsed
\* into a response with an empty command, confidence "low" and one warning;
\* the command then returns, with no exception, without running the validators.
C14_RefusalIsNotAnError ==
  /\ (pl_pc \in {"parsed", "done"} /\ ReplyHas("refusal")) =>
       /\ pl_response = Some(RefusalResponse)
       /\ Get(pl_response).command = <<>>
       /\ Get(pl_response).confidence = "low"
       /\ Len(Get(pl_response).warnings) = 1
       /\ pl_raised = "none"
       /\ pl_outcome # "aborted"
       /\ ~pl_validated
  /\ (pl_pc = "done" /\ ReplyHas("refusal")) => pl_outcome = "returned"

\* a reply holding both a refusal marker and a curl block ended the command
\* normally although validation was asked for
C14_Witness ==
  /\ pl_pc = "done"
  /\ ReplyHas("refusal")
  /\ ReplyHas("curl")
  /\ pl_validate
  /\ pl_outcome = "returned"

\* C18: a connection failure of the embedding provider or of the generation
\* model reaches the except clause of the command as OllamaConnectionError,
\* after one attempt.
C18_ConnectionErrorKindKept ==
  pl_provider \in {"embedding", "generation"} =>
    /\ pl_raised = "OllamaConnectionError"
    /\ pl_embed_calls <= 1
    /\ pl_chat_calls <= 1

\* C19: the generative model receives the fixed system instruction in the
\* message with role "system" and the per-query text in the message with role
\* "user".
C19_SystemAndUserRoles ==
  pl_chat_calls > 0 =>
    pl_messages = <<[role |-> "system", content |-> SystemInstruction],
                    [role |-> "user", content |-> UserPrompt]>>

\* C20: the text sent to the embedding provider is the normalized query, the
\* text QueryRequest.query holds.
C20_EmbedsNormalizedQuery ==
  pl_embed_calls > 0 =>
    /\ pl_embed_text = Some(Get(pl_request).query)
    /\ pl_embed_text = Some(_normalize_query(pl_query))

\* the first token of a reply that satisfies `want`, 0 for none
FirstToken(text, want(_)) ==
  IF \E i \in DOMAIN text : want(text[i])
    THEN CHOOSE i \in DOMAIN text : want(text[i]) /\ \A j \in 1..(i - 1) : ~want(text[j])
  ELSE 0

IsLabelled(t) == t.kind = "label"

IsNumber(t) == t.kind # "text"

IsPermutation(r, k) == Len(r) = k /\ Range(r) = 1..k

\* the head _parse_ranking is said to choose for the reply `text` and K = k:
\* the labelled number, else the first number, each only when inside 1..K;
\* 0 for the identity
ClaimedHead(text, k) ==
  LET l == FirstToken(text, IsLabelled)
      n == FirstToken(text, IsNumber)
  IN IF l # 0 /\ text[l].n \in 1..k THEN text[l].n
     ELSE IF n # 0 /\ text[n].n \in 1..k THEN text[n].n
     ELSE 0

\* C23: for every reply and every K, _parse_ranking returns a permutation of
\* 1..K; its head is the labelled number when that is in 1..K, else the first
\* number of the reply when that is in 1..K, and then the others follow in
\* their order; else the ranking is the identity; no index is outside 1..K.
C23_ParseRankingPermutation ==
  rr_llm.kind = "reply" =>
    \A k \in 0..MaxResults :
      LET r == _parse_ranking(rr_llm.text, k)
          h == ClaimedHead(rr_llm.text, k)
      IN /\ IsPermutation(r, k)
         /\ \A i \in DOMAIN r : r[i] \in 1..k
         /\ h # 0 => r[1] = h /\ StrictlyIncreasing(Tail(r))
         /\ h = 0 => r = [i \in 1..k |-> i]

\* a reply whose labelled number is out of range and whose first number is in
\* range moved that number's result to the front
C23_Witness ==
  /\ rr_pc = "done"
  /\ rr_llm.kind = "reply"
  /\ rr_top_n >= 1
  /\ LET l == FirstToken(rr_llm.text, IsLabelled)
         n == FirstToken(rr_llm.text, IsNumber)
     IN /\ l # 0
        /\ rr_llm.text[l].n > Len(rr_results)
        /\ rr_llm.text[n].n \in 2..Len(rr_results)
        /\ rr_return[1] = rr_results[rr_llm.text[n].n]

\* a header whose name, whatever its case, starts with `name`
HeaderPresent(name) ==
  \E i \in DOMAIN Get(sv_curl).headers :
    Len(Get(sv_curl).headers[i]) >= Len(name)
      /\ Lower(SubSeq(Get(sv_curl).headers[i], 1, Len(name))) = name

MethodMatches == Get(sv_curl).method = Get(sv_chunk).method

PathContained == _validate_path(Get(sv_curl), Get(sv_chunk))

AuthOk == Get(sv_chunk).requires_auth => HeaderPresent(<<"a", "u", "t", "h", "o", "r", "i", "z", "a", "t", "i", "o", "n">>)

ContentTypeOk == Get(sv_curl).body # None => HeaderPresent(<<"c", "o", "n", "t", "e", "n", "t", "-", "t", "y", "p", "e">>)

RequiredNames == {p.name : p \in {q \in Range(Get(sv_chunk).parameters) : q.required}}

FoundNames == {n \in RequiredNames : ParamFound(n, CombinedText(Get(sv_curl)))}

\* the score of the claim as the fraction [num / den]
ClaimedCompleteness ==
  LET fixed == (IF MethodMatches THEN 30 ELSE 0) + (IF PathContained THEN 20 ELSE 0)
                 + (IF AuthOk THEN 20 ELSE 0) + (IF ContentTypeOk THEN 15 ELSE 0)
  IN IF RequiredNames = {} THEN [num |-> fixed + 15, den |-> 100]
     ELSE [num |-> fixed * Cardinality(RequiredNames) + 15 * Cardinality(FoundNames),
           den |-> 100 * Cardinality(RequiredNames)]

\* C24: the completeness score validate returns is 0.30*[method matches] +
\* 0.20*[path contained] + 0.20*[auth ok] + 0.15*[content-type ok] +
\* 0.15*(found required parameters / required parameters, 1 when none is
\* required), so it lies in [0,1]; a POST command with Authorization and
\* Content-Type headers against an auth-requiring POST chunk with matching path
\* and no required parameter is valid with a completeness of at least 0.85.
C24_CompletenessFormula ==
  ValidateDone =>
    LET score == Get(sv_return).completeness_score
    IN /\ score.num * ClaimedCompleteness.den = ClaimedCompleteness.num * score.den
       /\ score.den > 0
       /\ 0 <= score.num /\ score.num <= score.den
       /\ (/\ Get(sv_curl).method = "POST"
           /\ Get(sv_chunk).method = "POST"
           /\ Get(sv_chunk).requires_auth
           /\ HeaderPresent(<<"a", "u", "t", "h", "o", "r", "i", "z", "a", "t", "i", "o", "n">>)
           /\ HeaderPresent(<<"c", "o", "n", "t", "e", "n", "t", "-", "t", "y", "p", "e">>)
           /\ PathContained
           /\ RequiredNames = {}) =>
            /\ Get(sv_return).is_valid
            /\ 100 * score.num >= 85 * score.den

\* one of two required parameters was found and a body came without a
\* Content-Type header: the score is 0.30 + 0.20 + 0.20 + 0.075
C24_Witness ==
  /\ ValidateDone
  /\ Cardinality(RequiredNames) = 2
  /\ Cardinality(FoundNames) = 1
  /\ MethodMatches /\ PathContained /\ AuthOk /\ ~ContentTypeOk
  /\ 1000 * Get(sv_return).completeness_score.num = 775 * Get(sv_return).completeness_score.den

ComponentsDone == gc_pc = "done"

\* C27: get_curl_components followed by validate returns a triple and never
\* raises, also when the command holds no URL-shaped token (url = None); the
\* missing URL is then a path warning.
C27_ValidateNeverRaises ==
  ComponentsDone =>
    /\ gc_raised = "none"
    /\ gc_return # None
    /\ Get(gc_components).url = None => "path" \in Range(Get(gc_return).warnings)

ScorerDone == sc_pc = "done"

\* C28: with syntax_valid = false or spec_valid = false, whatever similarity
\* and spec_completeness in [0,1], overall is at most 0.7 and the level is
\* "medium" or "low"; so "high" needs both to be true.
C28_HighNeedsBothValid ==
  ScorerDone =>
    LET score == Get(sc_score)
    IN /\ (~sc_syntax_valid \/ ~sc_spec_valid) =>
            /\ score.overall <= 7 * ScoreGrid
            /\ score.level \in {"medium", "low"}
            /\ ~score.validation_passed
       /\ score.level = "high" => (sc_syntax_valid /\ sc_spec_valid)

\* the syntax check alone failed with full similarity and completeness: 0.7, medium
C28_Witness ==
  /\ ScorerDone
  /\ ~sc_syntax_valid
  /\ sc_spec_valid
  /\ sc_similarity = ScoreGrid
  /\ sc_spec_completeness = ScoreGrid
  /\ Get(sc_score).overall = 7 * ScoreGrid
  /\ Get(sc_score).level = "medium"

EmptinessDone == vp_pc = "done"

\* the non-null operations of the spec, as (path index, verb) pairs
NonNullOperations ==
  {pv \in (DOMAIN vp_paths) \X VerbSet : vp_paths[pv[1]].item[pv[2]] # None}

\* C25: validate_spec succeeds exactly when the spec has at least one non-null
\* operation, chunk_spec raises its empty-result error exactly when it has
\* none; so a spec that passed validate_spec never makes chunk_spec fail for
\* emptiness, and gets one chunk per operation.
C25_ValidationAndChunkerAgree ==
  EmptinessDone =>
    /\ vp_validate = "True" <=> NonNullOperations # {}
    /\ vp_validate = "SpecParsingError" <=> NonNullOperations = {}
    /\ vp_chunking = "ChunkingError" <=> NonNullOperations = {}
    /\ vp_chunking = "returned" <=> NonNullOperations # {}
    /\ vp_validate = "True" =>
         (vp_chunking = "returned" /\ Len(vp_chunks) = Cardinality(NonNullOperations))

\* a spec with two paths and no operation failed both; its paths are not empty
C25_Witness ==
  /\ EmptinessDone
  /\ Len(vp_paths) = 2
  /\ NonNullOperations = {}
  /\ vp_validate = "SpecParsingError"
  /\ vp_chunking = "ChunkingError"

ParserDone == pa_pc = "done"

HasRefusalMarker == \E i \in DOMAIN pa_text : pa_text[i].kind = "refusal"

HasConfidenceTag == \E i \in DOMAIN pa_text : pa_text[i].kind = "tag"

\* C26: for a reply without a refusal marker parse_curl_response either raises
\* GenerationError or returns a response with a non-empty command, so a parsed
\* response has an empty command exactly for a refusal reply; without a
\* confidence tag the confidence of a parsed command is "medium".
C26_EmptyCommandOnlyForRefusal ==
  ParserDone =>
    /\ (pa_raised = "none") # (pa_response = None)
    /\ pa_raised \in {"none", "GenerationError"}
    /\ ~HasRefusalMarker =>
         \/ pa_raised = "GenerationError"
         \/ /\ pa_response # None
            /\ Get(pa_response).command # <<>>
            /\ \E i \in DOMAIN Get(pa_response).command :
                 Get(pa_response).command[i].kind = "curl"
    /\ pa_response # None =>
         (Get(pa_response).command = <<>> <=> HasRefusalMarker)
    /\ (pa_response # None /\ ~HasRefusalMarker /\ ~HasConfidenceTag) =>
         Get(pa_response).confidence = "medium"

\* a reply of a fenced command and nothing else was parsed into that command
\* with the default confidence
C26_Witness ==
  /\ ParserDone
  /\ pa_text = <<FenceLine, CurlLine, FenceLine>>
  /\ pa_response # None
  /\ Get(pa_response).command = <<CurlLine>>
  /\ Get(pa_response).confidence = "medium"

\* the search stage returned, and returned no result
SearchReturnedNothing ==
  /\ Len(pl_trace) >= 3
  /\ pl_trace[3].result = "returned"
  /\ pl_results = <<>>

\* C22: the stages of a query start in the order normalize, embed, search,
\* rerank, build prompt, generate, parse, syntax validation, spec validation,
\* scoring, the last three only with --validate; every stage before the last
\* one started has returned, so a stage that raised is the last one; and after a
\* search without results neither the reranker nor the generative model runs.
C22_StagesInOrder ==
  /\ Len(pl_trace) <= Len(StageOrder)
  /\ \A i \in DOMAIN pl_trace : pl_trace[i].stage = StageOrder[i]
  /\ \A i \in DOMAIN pl_trace : i < Len(pl_trace) => pl_trace[i].result = "returned"
  /\ Len(pl_trace) > 7 => pl_validate
  /\ (pl_outcome = "aborted") =>
       (pl_trace # <<>> /\ pl_trace[Len(pl_trace)].result = "raised")
  /\ SearchReturnedNothing =>
       /\ Len(pl_trace) = 3
       /\ pl_rerank_calls = 0
       /\ pl_chat_calls = 0
       /\ pl_reply = None

\* a query with --validate ran all ten stages and printed its command
C22_Witness ==
  /\ pl_pc = "done"
  /\ pl_validate
  /\ pl_ending = "printed"
  /\ Len(pl_trace) = Len(StageOrder)
  /\ pl_rerank_calls = 1
  /\ pl_chat_calls = 1

\* the reranker was called and returned
RerankReturned ==
  /\ Len(pl_trace) >= 4
  /\ pl_provider # "reranker"

\* C30: when the search returned at least one result and the reranker returned,
\* the reranker returned exactly one result, taking the first raises nothing,
\* and the top result is a search result with the similarity score the search
\* gave it.
C30_TopResultIsASearchResult ==
  (RerankReturned /\ Len(pl_results) >= 1) =>
    /\ Len(pl_reranked) = 1
    /\ pl_raised # "IndexError"
    /\ pl_top = Some(pl_reranked[1])
    /\ \E i \in DOMAIN pl_results :
         /\ pl_results[i].id = Get(pl_top).id
         /\ pl_results[i].chunk = Get(pl_top).chunk
         /\ pl_results[i].similarity_score = Get(pl_top).similarity_score

\* the model put the second of two results first: the top result is the second
\* search result, with its lower similarity score
C30_Witness ==
  /\ RerankReturned
  /\ Len(pl_results) = 2
  /\ pl_rerank_calls = 1
  /\ pl_top # None
  /\ Get(pl_top).id = pl_results[2].id
  /\ Get(pl_top).rank = 1
  /\ pl_results[2].rank = 2
  /\ Get(pl_top).similarity_score = pl_results[2].similarity_score
  /\ Get(pl_top).similarity_score < pl_results[1].similarity_score

IngestDone == ig_pc = "done"

\* the stage that raised, "none" when none did
IngestFailedStage ==
  IF ig_trace # <<>> /\ ig_trace[Len(ig_trace)].result = "raised"
    THEN ig_trace[Len(ig_trace)].stage
  ELSE "none"

\* the collection holds the chunks of this run and nothing else
HoldsExactlyThisSpec ==
  /\ ig_store # None
  /\ DOMAIN Get(ig_store) = IdsOf(ig_chunks)
  /\ \A id \in IdsOf(ig_chunks) :
       Get(ig_store)[id] = EntryOf(AsIndexed(ig_chunks), ig_embeddings, id)

C21_ExceptionsAbort ==
  /\ (pl_raised # "none") =>
       /\ pl_pc = "done"
       /\ pl_outcome = "aborted"
       /\ pl_error = "Query failed: " \o pl_raised
  /\ (ig_raised # "none") =>
       /\ ig_pc = "done"
       /\ ig_outcome = "aborted"
       /\ ig_error = "Ingestion failed: " \o ig_raised
  /\ \A i \in DOMAIN pl_trace : pl_trace[i].result = "raised" => pl_raised # "none"
  /\ \A i \in DOMAIN ig_trace : ig_trace[i].result = "raised" => ig_raised # "none"
  /\ (pl_outcome = "aborted") => pl_raised # "none"
  /\ (ig_outcome = "aborted") => ig_raised # "none"
  /\ (pl_pc = "done") => pl_outcome \in {"returned", "aborted"}
  /\ (ig_pc = "done") => ig_outcome \in {"returned", "aborted"}
  /\ (pl_outcome = "returned") =>
       /\ pl_pc = "done"
       /\ pl_ending \in {"printed", "no_results", "no_command"}
       /\ (pl_ending = "no_results") <=> (pl_results = <<>>)
       /\ (pl_ending = "no_command") => ReplyHas("refusal")
       /\ (pl_ending = "printed") =>
            /\ ~ReplyHas("refusal")
            /\ Get(pl_response).command # <<>>

\* a query with --validate whose command holds no URL was aborted by the
\* TypeError of the spec validation, with the error printed
C21_Witness ==
  /\ pl_pc = "done"
  /\ pl_raised = "TypeError"
  /\ pl_outcome = "aborted"
  /\ pl_error = "Query failed: TypeError"
  /\ pl_trace[Len(pl_trace)] = [stage |-> "spec_validation", result |-> "raised"]

====
